---- MODULE Spec2Model ----
(***************************************************************************)
(* Model of the voting-gauge reconciliation code (VotingGaugesRepository   *)
(* in src/modules/actions/cow-amm/sync-join-exits.ts), of syncJoinExits in *)
(* the same file, of syncPools (src/modules/protocol/protocol.service.ts)  *)
(* and of BeetsService.getProtocolData (src/unnamed/part_000). Each        *)
(* program has its own variables and its own specification; the variables *)
(* of the other programs stay at their idle values.                        *)
(*                                                                         *)
(* Conventions                                                             *)
(*  - a JS optional value is a sequence of length <= 1: <<>> is undefined, *)
(*    <<v>> is the value v;                                                *)
(*  - an address string is a record [kind, n, lower]: kind and n are its   *)
(*    hex digits, lower says whether its letters are all lower case        *)
(*    (a checksummed address has lower = FALSE);                           *)
(*  - token amounts are counted in units of 10^(18 - WeiDigits) wei, so    *)
(*    that formatEther's 18 fraction digits become WeiDigits digits;       *)
(*  - a decimal string is a record [whole, frac]: frac is the sequence of  *)
(*    digits after the point, <<>> when the string has no point.           *)
(***************************************************************************)
EXTENDS Integers, Sequences, FiniteSets, Bags, TLC

\* Number of gauges in the on-chain registry (GaugeController.n_gauges).
NumGauges == 2

\* Fraction digits kept by formatEther in the model (18 in ethers).
WeiDigits == 2

Undefined == <<>>

Some(v) == <<v>>

IsDefined(opt) == opt # <<>>

RECURSIVE Pow10(_)
Pow10(k) == IF k = 0 THEN 1 ELSE 10 * Pow10(k - 1)

\* One ether in model units.
EtherUnit == Pow10(WeiDigits)

----------------------------------------------------------------------------
(* Strings                                                                 *)

\* Mutant of toLowerCase: the address is left as it is.
ToLowerCase_AsIs(address) == address

\* String.prototype.toLowerCase on an address.
ToLowerCase(address) == [address EXCEPT !.lower = TRUE]

\* String.prototype.toUpperCase on the network names the model draws.
ToUpperCase(name) ==
    CASE name = "Ethereum" -> "ETHEREUM"
      [] name = "veBAL" -> "VEBAL"
      [] name = "Arbitrum" -> "ARBITRUM"
      [] name = "Polygon" -> "POLYGON"
      [] name = "PolygonZkEvm" -> "POLYGONZKEVM"
      [] name = "ZkSync" -> "ZKSYNC"
      [] name = "Liquidity Mining Committee" -> "LIQUIDITY MINING COMMITTEE"
      [] name = "mainnet" -> "MAINNET"
      [] name \in {"ethereum", "eThErEuM"} -> "ETHEREUM"
      [] name \in {"vebal", "VeBal"} -> "VEBAL"
      [] name \in {"arbitrum", "aRbItRuM"} -> "ARBITRUM"
      [] name \in {"polygon", "pOlYgOn"} -> "POLYGON"
      [] name \in {"polygonzkevm", "PolygonZKEVM"} -> "POLYGONZKEVM"
      [] name \in {"zkevm", "ZkEvm"} -> "ZKEVM"
      [] name \in {"Mainnet", "mAiNnEt"} -> "MAINNET"
      [] name \in {"zksync", "zkSync"} -> "ZKSYNC"
      [] name \in {"solana", "Solana"} -> "SOLANA"
      [] OTHER -> name

\* The members of the Chain enumeration of @prisma/client the model uses.
Chain == {"MAINNET", "ARBITRUM", "POLYGON", "ZKEVM"}

RECURSIVE StripTrailingZeros(_)
StripTrailingZeros(digits) ==
    IF Len(digits) > 1 /\ digits[Len(digits)] = 0
    THEN StripTrailingZeros(SubSeq(digits, 1, Len(digits) - 1))
    ELSE digits

RECURSIVE DigitsOf(_, _)
\* The k decimal digits of v, most significant first, left-padded with zeros.
DigitsOf(v, k) ==
    IF k = 0 THEN <<>> ELSE Append(DigitsOf(v \div 10, k - 1), v % 10)

\* ethers formatEther: whole part, a point, and the fraction with its trailing
\* zeros stripped down to at least one digit ("0.0", "0.05", "0.1", "1.0").
FormatEther(value) ==
    [whole |-> value \div EtherUnit,
     frac |-> StripTrailingZeros(DigitsOf(value % EtherUnit, WeiDigits))]

\* Number(formatEther(value)): the number the decimal string denotes, in model
\* units.
RECURSIVE FracValue(_, _)
FracValue(digits, k) ==
    IF digits = <<>> THEN 0
    ELSE Head(digits) * Pow10(k - 1) + FracValue(Tail(digits), k - 1)

NumberOf(decimal) == decimal.whole * EtherUnit + FracValue(decimal.frac, WeiDigits)

\* Number.prototype.toString of a number given in model units: no point for an
\* integer ("0", "1"), otherwise the shortest fraction ("0.05", "0.4").
NumberToString(number) ==
    IF number % EtherUnit = 0
    THEN [whole |-> number \div EtherUnit, frac |-> <<>>]
    ELSE [whole |-> number \div EtherUnit,
          frac |-> StripTrailingZeros(DigitsOf(number % EtherUnit, WeiDigits))]

----------------------------------------------------------------------------
(* VotingGaugesRepository: pure helpers                                    *)

Returned(value) == [threw |-> FALSE, value |-> value]

Threw(error) == [threw |-> TRUE, error |-> error]

\* Mutant of toPrismaNetwork: the legacy alias 'VEBAL' is not mapped.
ToPrismaNetwork_NoLegacyAlias(chainOrSubgraphNetwork) ==
    LET network == ToUpperCase(chainOrSubgraphNetwork) IN
    IF network = "ETHEREUM" THEN Returned("MAINNET")
    ELSE IF network = "POLYGONZKEVM" THEN Returned("ZKEVM")
    ELSE IF network \notin Chain
         THEN Threw([kind |-> "network_not_supported", network |-> network])
    ELSE Returned(network)

\* toPrismaNetwork: the Chain for a gauge type name or a subgraph network name;
\* throws Error(`Network ${network} is not supported`) for any other name.
ToPrismaNetwork(chainOrSubgraphNetwork) ==
    LET network == ToUpperCase(chainOrSubgraphNetwork) IN
    IF network = "ETHEREUM" THEN Returned("MAINNET")
    ELSE IF network = "POLYGONZKEVM" THEN Returned("ZKEVM")
    ELSE IF network = "VEBAL" THEN Returned("MAINNET")
    ELSE IF network \notin Chain
         THEN Threw([kind |-> "network_not_supported", network |-> network])
    ELSE Returned(network)

\* Mutant of isValidForVotingList: a killed gauge is never valid.
IsValidForVotingList_AliveOnly(rootGauge) == ~rootGauge.isKilled

\* isValidForVotingList: alive, or killed with votes left to reallocate.
IsValidForVotingList(rootGauge) ==
    LET isAlive == ~rootGauge.isKilled IN
    isAlive \/ rootGauge.relativeWeight > 0

\* lodash zipObject: the object with keys[i] -> values[i]; a repeated key keeps
\* its last value.
ZipObject(keys, values) ==
    [k \in {keys[i] : i \in 1..Len(keys)} |->
        LET last == CHOOSE i \in 1..Len(keys) :
                        /\ keys[i] = k
                        /\ \A j \in 1..Len(keys) : keys[j] = k => j <= i
        IN values[last]]

\* lodash keyBy on 'gaugeAddress': a repeated address keeps its last element.
KeyByGaugeAddress(gauges) ==
    ZipObject([i \in 1..Len(gauges) |-> gauges[i].gaugeAddress], gauges)

\* generateGaugeIndexes: 0 .. totalGauges - 1.
GenerateGaugeIndexes(totalGauges) == [i \in 1..totalGauges |-> i - 1]

----------------------------------------------------------------------------
(* State                                                                   *)

VARIABLES
    registry,        \* on-chain GaugeController and gauge contracts, by index
    subgraph,        \* the gauge subgraph: rootGauges and liquidityGauges
    staking,         \* table prismaPoolStakingGauge (read only here)
    store,           \* table prismaVotingGauge, a bag of rows
    pc,              \* position of the reconciliation run
    addresses,       \* result of getVotingGaugeAddresses
    weightCaps,      \* relativeWeightCaps of fetchOnchainVotingGauges, once fetched
    onchainGauges,   \* result of fetchOnchainVotingGauges
    subgraphGauges,  \* result of fetchVotingGaugesFromSubgraph
    votingGauges,    \* the entities handed to saveVotingGauges
    tasks,           \* the per-gauge async callbacks of saveVotingGauges
    promise,         \* the Promise.all returned by saveVotingGauges
    returned,        \* the list saveVotingGauges resolved with, if it did
    runError,        \* the error the run reported, if any
    storeChanged,    \* history: an upsert of the current run changed the store
    prevRun,         \* history: how the run before the current one ended
    prevCommitted,   \* history: keys whose upsert the run before committed
    written,         \* history: keys upserted since the store was last emptied
    names,           \* network names handed to toPrismaNetwork, in call order
    networks,        \* the outcome of toPrismaNetwork for each name handled so far
    addRemoveEvents, \* the AddRemove entities of the Cow AMM subgraph
    poolEvents,      \* table prismaPoolEvent: JOIN/EXIT rows of the chain, version 1
    syncPc,          \* position of the current call of syncJoinExits
    latestEvent,     \* latestEvent of syncJoinExits, once read
    addRemoves,      \* addRemoves of syncJoinExits, once fetched
    syncReturned,    \* the ids the last call of syncJoinExits returned
    syncErrors,      \* number of 'Error creating DB entries' on the console
    poolIds,         \* the ids syncPools is called with
    poolsWithUSD,    \* poolsWithUSD of syncPools, once computed
    poolDynamicDataTable,       \* table prismaPoolDynamicData
    poolTokenDynamicDataTable,  \* table prismaPoolTokenDynamicData
    poolsPc,         \* position of the call of syncPools
    consoleErrors,   \* what syncPools logged with console.error
    poolsReturned,   \* what the call of syncPools returned, if it did
    memCache,        \* BeetsService.cache at PROTOCOL_DATA_CACHE_KEY
    sharedCache,     \* the shared cache at PROTOCOL_DATA_CACHE_KEY
    protocolSource,  \* what the subgraphs and price services report now
    requests         \* the calls of getProtocolData and cacheProtocolData

networkCalls == <<names, networks>>

joinExits == <<addRemoveEvents, poolEvents, syncPc, latestEvent, addRemoves, syncReturned,
               syncErrors>>

pools == <<poolIds, poolsWithUSD, poolDynamicDataTable, poolTokenDynamicDataTable, poolsPc,
           consoleErrors, poolsReturned>>

beets == <<memCache, sharedCache, protocolSource, requests>>

\* The state of the programs other than the voting-gauge reconciliation.
otherPrograms == <<networkCalls, joinExits, pools, beets>>

upstream == <<registry, subgraph, staking>>

runVars == <<pc, addresses, weightCaps, onchainGauges, subgraphGauges, votingGauges, tasks,
             promise, returned, runError>>

history == <<storeChanged, prevRun, prevCommitted, written>>

vars == <<registry, subgraph, staking, store, pc, addresses, weightCaps, onchainGauges,
          subgraphGauges, votingGauges, tasks, promise, returned, runError,
          storeChanged, prevRun, prevCommitted, written, names, networks,
          addRemoveEvents, poolEvents, syncPc, latestEvent, addRemoves, syncReturned,
          syncErrors, poolIds, poolsWithUSD, poolDynamicDataTable, poolTokenDynamicDataTable, poolsPc,
          consoleErrors, poolsReturned, memCache, sharedCache, protocolSource, requests>>

----------------------------------------------------------------------------
(* Upstream data the runs read                                             *)

\* gauge_type_names(i) of the GaugeController, i = 0, 1, ...
GaugeTypeNames ==
    <<"Liquidity Mining Committee", "veBAL", "Arbitrum", "ZkSync">>

\* The address GaugeController.gauges(i - 1) returns, checksummed.
GaugeContract(i) == [kind |-> "gauge", n |-> i, lower |-> FALSE]

\* The recipient the subgraph records for the root gauge of slot i.
RecipientOf(i) == [kind |-> "recipient", n |-> i, lower |-> (i % 2 = 0)]

\* The chain names the subgraph gives for a root gauge: a member of Chain in
\* the subgraph's spelling, an alias, and a chain the database does not know.
IndexChainNames == {"Arbitrum", "PolygonZKEVM", "Solana"}

\* Everything upstream says about one gauge; only a root gauge record has a
\* chain name.
GaugeCases ==
    {case \in [gaugeType : 0..(Len(GaugeTypeNames) - 1),
               isKilled : BOOLEAN,
               relativeWeight : {0, 5},
               capSuccess : BOOLEAN,
               indexed : {"none", "root", "local"},
               indexChain : IndexChainNames,
               staked : BOOLEAN] :
        case.indexed # "root" => case.indexChain = "Arbitrum"}

\* The case of a gauge beside the freely chosen one: at an odd index a killed
\* root gauge that keeps votes, with a recipient that has a staking gauge; at
\* an even index a live MAINNET gauge with a staking gauge.
SiblingCase(i) ==
    IF i % 2 = 1
    THEN [gaugeType |-> 2, isKilled |-> TRUE, relativeWeight |-> 5,
          capSuccess |-> FALSE, indexed |-> "root", indexChain |-> "Arbitrum",
          staked |-> TRUE]
    ELSE [gaugeType |-> 1, isKilled |-> FALSE, relativeWeight |-> 5,
          capSuccess |-> TRUE, indexed |-> "local", indexChain |-> "Arbitrum",
          staked |-> TRUE]

RegistryOf(cases) ==
    [i \in 1..NumGauges |->
        [address |-> GaugeContract(i),
         gaugeType |-> cases[i].gaugeType,
         isKilled |-> cases[i].isKilled,
         relativeWeight |-> cases[i].relativeWeight,
         weightCapCall |-> IF cases[i].capSuccess
                           THEN [success |-> TRUE, returnData |-> Some(10 * i)]
                           ELSE [success |-> FALSE, returnData |-> Undefined]]]

Slots == [i \in 1..NumGauges |-> i]

SubgraphOf(cases) ==
    [rootGauges |->
        LET IsRoot(i) == cases[i].indexed = "root"
            slots == SelectSeq(Slots, IsRoot)
        IN [k \in 1..Len(slots) |->
               [id |-> ToLowerCase(GaugeContract(slots[k])),
                chain |-> cases[slots[k]].indexChain,
                recipient |-> RecipientOf(slots[k]),
                gauge |-> Some([addedTimestamp |-> 1700 + slots[k]])]],
     liquidityGauges |->
        LET IsLocal(i) == cases[i].indexed = "local"
            slots == SelectSeq(Slots, IsLocal)
        IN [k \in 1..Len(slots) |->
               [id |-> ToLowerCase(GaugeContract(slots[k])),
                gauge |-> Undefined]]]

StakingRow(chain, gaugeAddress) ==
    [id |-> gaugeAddress, chain |-> chain, gaugeAddress |-> gaugeAddress]

\* The chain on which the recipient of a gauge has its staking gauge: the
\* chain of its root gauge record where the database knows it.
RecipientChain(case) ==
    IF case.indexChain = "PolygonZKEVM" THEN "ZKEVM" ELSE "ARBITRUM"

StakingOf(cases) ==
    UNION {{StakingRow("MAINNET", ToLowerCase(GaugeContract(i))),
            StakingRow(RecipientChain(cases[i]), ToLowerCase(RecipientOf(i)))} :
           i \in {j \in 1..NumGauges : cases[j].staked}}

\* Rows left by earlier runs: gauge 1 as it was before it was revived on
\* MAINNET, and a gauge that has since left the registry.
StaleRows ==
    LET Row(address) ==
            [id |-> address, chain |-> "MAINNET", gaugeAddress |-> address,
             relativeWeight |-> NumberToString(0),
             relativeWeightCap |-> Some(FormatEther(EtherUnit)),
             stakingGaugeId |-> Undefined, status |-> "KILLED",
             addedTimestamp |-> Some(1600)]
    IN SetToBag({Row(ToLowerCase(GaugeContract(1))),
                 Row(ToLowerCase(GaugeContract(0)))})

----------------------------------------------------------------------------
(* Registry Reader: reads of the chain through multicall                   *)

\* The registry entry of the contract at an address (an address names the same
\* contract in any letter case).
ContractAt(address) ==
    LET i == CHOOSE j \in 1..Len(registry) :
                 ToLowerCase(registry[j].address) = ToLowerCase(address)
    IN registry[i]

\* Multicall3.aggregate3: one result per call, in call order. A failing call
\* that allows failure yields success = false; one that does not reverts the
\* whole batch.
Aggregate3(calls) ==
    LET results == [i \in 1..Len(calls) |-> ContractAt(calls[i].target).weightCapCall]
    IN IF \E i \in 1..Len(calls) : ~calls[i].allowFailure /\ ~results[i].success
       THEN Threw([kind |-> "multicall_failed"])
       ELSE Returned(results)

\* fetchGaugeAddresses: gauges(index) for every index, lower-cased.
FetchGaugeAddresses(totalGauges) ==
    LET indexes == GenerateGaugeIndexes(totalGauges)
        response == [i \in 1..Len(indexes) |-> registry[indexes[i] + 1].address]
    IN [i \in 1..Len(response) |-> ToLowerCase(response[i])]

\* getVotingGaugeAddresses: n_gauges(), then fetchGaugeAddresses.
GetVotingGaugeAddresses == FetchGaugeAddresses(Len(registry))

\* fetchTypeNames: gauge_type_names(index) for every index.
FetchTypeNames(totalTypes) ==
    LET indexes == GenerateGaugeIndexes(totalTypes)
    IN [i \in 1..Len(indexes) |-> GaugeTypeNames[indexes[i] + 1]]

\* fetchGaugeTypes: address -> gauge_types(address).
FetchGaugeTypes(gaugeAddresses) ==
    ZipObject(gaugeAddresses,
              [i \in 1..Len(gaugeAddresses) |-> ContractAt(gaugeAddresses[i]).gaugeType])

\* fetchRelativeWeights: address -> Number(formatEther(gauge_relative_weight)).
FetchRelativeWeights(gaugeAddresses) ==
    ZipObject(gaugeAddresses,
              [i \in 1..Len(gaugeAddresses) |->
                  NumberOf(FormatEther(ContractAt(gaugeAddresses[i]).relativeWeight))])

\* fetchIsKilled: address -> is_killed().
FetchIsKilled(gaugeAddresses) ==
    ZipObject(gaugeAddresses,
              [i \in 1..Len(gaugeAddresses) |-> ContractAt(gaugeAddresses[i]).isKilled])

\* Mutant of fetchRelativeWeightCaps: the calls do not allow failure.
FetchRelativeWeightCaps_NoFailureAllowed(gaugeAddresses) ==
    LET allowFailures == FALSE
        calls == [i \in 1..Len(gaugeAddresses) |->
                     [target |-> gaugeAddresses[i],
                      allowFailure |-> allowFailures,
                      callData |-> "getRelativeWeightCap"]]
        batch == Aggregate3(calls)
    IN IF batch.threw THEN batch
       ELSE LET results == batch.value
                relativeWeightCaps ==
                    [i \in 1..Len(results) |->
                        IF results[i].success
                        THEN Some(FormatEther(results[i].returnData[1]))
                        ELSE Undefined]
            IN Returned(ZipObject(gaugeAddresses, relativeWeightCaps))

\* fetchRelativeWeightCaps: aggregate3 with allowFailures = true; a failed call
\* gives undefined, a successful one formatEther of its decoded value.
FetchRelativeWeightCaps(gaugeAddresses) ==
    LET allowFailures == TRUE
        calls == [i \in 1..Len(gaugeAddresses) |->
                     [target |-> gaugeAddresses[i],
                      allowFailure |-> allowFailures,
                      callData |-> "getRelativeWeightCap"]]
        batch == Aggregate3(calls)
    IN IF batch.threw THEN batch
       ELSE LET results == batch.value
                relativeWeightCaps ==
                    [i \in 1..Len(results) |->
                        IF results[i].success
                        THEN Some(FormatEther(results[i].returnData[1]))
                        ELSE Undefined]
            IN Returned(ZipObject(gaugeAddresses, relativeWeightCaps))

RECURSIVE PushVotingGauges_NoSkip(_, _, _, _, _, _)
\* Mutant of the forEach of fetchOnchainVotingGauges: no gauge is skipped.
PushVotingGauges_NoSkip(rest, gaugeTypes, isKilled, relativeWeights, relativeWeightCaps, acc) ==
    IF rest = <<>> THEN Returned(acc)
    ELSE LET gaugeAddress == Head(rest)
             network == ToPrismaNetwork(gaugeTypes[gaugeAddress])
         IN IF network.threw THEN network
            ELSE PushVotingGauges_NoSkip(
                     Tail(rest), gaugeTypes, isKilled, relativeWeights,
                     relativeWeightCaps,
                     Append(acc,
                            [gaugeAddress |-> ToLowerCase(gaugeAddress),
                             network |-> network.value,
                             isKilled |-> isKilled[gaugeAddress],
                             relativeWeight |-> relativeWeights[gaugeAddress],
                             relativeWeightCap |-> relativeWeightCaps[gaugeAddress],
                             recipient |-> Undefined,
                             stakingGaugeId |-> Undefined,
                             isInSubgraph |-> FALSE,
                             addedTimestamp |-> Undefined]))

RECURSIVE PushVotingGauges(_, _, _, _, _, _)
\* The forEach of fetchOnchainVotingGauges: skips the 'Liquidity Mining
\* Committee' gauges, derives the network of every other gauge from its type
\* name, and stops at the first name toPrismaNetwork rejects.
PushVotingGauges(rest, gaugeTypes, isKilled, relativeWeights, relativeWeightCaps, acc) ==
    IF rest = <<>> THEN Returned(acc)
    ELSE LET gaugeAddress == Head(rest) IN
         IF gaugeTypes[gaugeAddress] = "Liquidity Mining Committee"
         THEN PushVotingGauges(Tail(rest), gaugeTypes, isKilled, relativeWeights,
                               relativeWeightCaps, acc)
         ELSE LET network == ToPrismaNetwork(gaugeTypes[gaugeAddress]) IN
              IF network.threw THEN network
              ELSE PushVotingGauges(
                       Tail(rest), gaugeTypes, isKilled, relativeWeights,
                       relativeWeightCaps,
                       Append(acc,
                              [gaugeAddress |-> ToLowerCase(gaugeAddress),
                               network |-> network.value,
                               isKilled |-> isKilled[gaugeAddress],
                               relativeWeight |-> relativeWeights[gaugeAddress],
                               relativeWeightCap |-> relativeWeightCaps[gaugeAddress],
                               recipient |-> Undefined,
                               stakingGaugeId |-> Undefined,
                               isInSubgraph |-> FALSE,
                               addedTimestamp |-> Undefined]))

\* fetchOnchainVotingGauges.
FetchOnchainVotingGauges(gaugeAddresses) ==
    LET typeNames == FetchTypeNames(Len(GaugeTypeNames))
        relativeWeights == FetchRelativeWeights(gaugeAddresses)
        gaugeTypeIndexes == FetchGaugeTypes(gaugeAddresses)
        gaugeTypes == [a \in DOMAIN gaugeTypeIndexes |-> typeNames[gaugeTypeIndexes[a] + 1]]
        isKilled == FetchIsKilled(gaugeAddresses)
        relativeWeightCaps == FetchRelativeWeightCaps(gaugeAddresses)
    IN IF relativeWeightCaps.threw THEN relativeWeightCaps
       ELSE PushVotingGauges(gaugeAddresses, gaugeTypes, isKilled, relativeWeights,
                             relativeWeightCaps.value, <<>>)

----------------------------------------------------------------------------
(* Index Reader and Reconciler                                             *)

RECURSIVE MapRootGauges_UpperCased(_)
\* Mutant of the map over rootGauges: the chain is the subgraph's network name
\* in upper case, whatever the name.
MapRootGauges_UpperCased(rootGauges) ==
    IF rootGauges = <<>> THEN Returned(<<>>)
    ELSE LET gauge == Head(rootGauges)
             rest == MapRootGauges_UpperCased(Tail(rootGauges))
         IN Returned(<<[gaugeAddress |-> gauge.id,
                        chain |-> ToUpperCase(gauge.chain),
                        recipient |-> Some(gauge.recipient),
                        addedTimestamp |->
                            IF IsDefined(gauge.gauge)
                            THEN Some(gauge.gauge[1].addedTimestamp)
                            ELSE Undefined]>> \o rest.value)

RECURSIVE MapRootGauges(_)
\* The map over rootGauges: toPrismaNetwork may reject a subgraph network.
MapRootGauges(rootGauges) ==
    IF rootGauges = <<>> THEN Returned(<<>>)
    ELSE LET gauge == Head(rootGauges)
             chain == ToPrismaNetwork(gauge.chain)
             rest == MapRootGauges(Tail(rootGauges))
         IN IF chain.threw THEN chain
            ELSE IF rest.threw THEN rest
            ELSE Returned(<<[gaugeAddress |-> gauge.id,
                             chain |-> chain.value,
                             recipient |-> Some(gauge.recipient),
                             addedTimestamp |->
                                 IF IsDefined(gauge.gauge)
                                 THEN Some(gauge.gauge[1].addedTimestamp)
                                 ELSE Undefined]>> \o rest.value)

\* gaugeSubgraphService.get...ForIds: the records whose id is among the ids.
ForIds(records, ids) ==
    LET Asked(r) == \E i \in 1..Len(ids) : ids[i] = r.id
    IN SelectSeq(records, Asked)

\* Mutant of fetchVotingGaugesFromSubgraph: a liquidity gauge is returned as a
\* root gauge on its own address.
FetchVotingGaugesFromSubgraph_LocalAsRoot(onchainAddresses) ==
    LET rootGauges == ForIds(subgraph.rootGauges, onchainAddresses)
        l2RootGauges == MapRootGauges(rootGauges)
        liquidityGauges == ForIds(subgraph.liquidityGauges, onchainAddresses)
        mainnetLiquidityGauges ==
            [i \in 1..Len(liquidityGauges) |->
                [gaugeAddress |-> liquidityGauges[i].id,
                 chain |-> "MAINNET",
                 recipient |-> Some(liquidityGauges[i].id),
                 addedTimestamp |->
                     IF IsDefined(liquidityGauges[i].gauge)
                     THEN Some(liquidityGauges[i].gauge[1].addedTimestamp)
                     ELSE Undefined]]
    IN IF l2RootGauges.threw THEN l2RootGauges
       ELSE Returned(l2RootGauges.value \o mainnetLiquidityGauges)

\* fetchVotingGaugesFromSubgraph: root gauges with the subgraph's chain and
\* recipient, then liquidity gauges on MAINNET without recipient.
FetchVotingGaugesFromSubgraph(onchainAddresses) ==
    LET rootGauges == ForIds(subgraph.rootGauges, onchainAddresses)
        l2RootGauges == MapRootGauges(rootGauges)
        liquidityGauges == ForIds(subgraph.liquidityGauges, onchainAddresses)
        mainnetLiquidityGauges ==
            [i \in 1..Len(liquidityGauges) |->
                [gaugeAddress |-> liquidityGauges[i].id,
                 chain |-> "MAINNET",
                 recipient |-> Undefined,
                 addedTimestamp |->
                     IF IsDefined(liquidityGauges[i].gauge)
                     THEN Some(liquidityGauges[i].gauge[1].addedTimestamp)
                     ELSE Undefined]]
    IN IF l2RootGauges.threw THEN l2RootGauges
       ELSE Returned(l2RootGauges.value \o mainnetLiquidityGauges)

\* Mutant of updateOnchainGaugesWithSubgraphData: the network derived from the
\* gauge type is kept.
UpdateOnchainGaugesWithSubgraphData_KeepNetwork(onchain, subgraphList) ==
    LET subgraphGaugesByAddress == KeyByGaugeAddress(subgraphList)
    IN [i \in 1..Len(onchain) |->
           LET gauge == onchain[i] IN
           IF gauge.gaugeAddress \in DOMAIN subgraphGaugesByAddress
           THEN LET subGraphGauge == subgraphGaugesByAddress[gauge.gaugeAddress]
                IN [gauge EXCEPT !.isInSubgraph = TRUE,
                                 !.recipient = subGraphGauge.recipient,
                                 !.addedTimestamp = subGraphGauge.addedTimestamp]
           ELSE gauge]

\* Mutant of updateOnchainGaugesWithSubgraphData: a gauge with a subgraph
\* record is rebuilt from the record and loses its relativeWeightCap.
UpdateOnchainGaugesWithSubgraphData_RebuildsGauge(onchain, subgraphList) ==
    LET subgraphGaugesByAddress == KeyByGaugeAddress(subgraphList)
    IN [i \in 1..Len(onchain) |->
           LET gauge == onchain[i] IN
           IF gauge.gaugeAddress \in DOMAIN subgraphGaugesByAddress
           THEN LET subGraphGauge == subgraphGaugesByAddress[gauge.gaugeAddress]
                IN [gauge EXCEPT !.isInSubgraph = TRUE,
                                 !.network = subGraphGauge.chain,
                                 !.recipient = subGraphGauge.recipient,
                                 !.addedTimestamp = subGraphGauge.addedTimestamp,
                                 !.relativeWeightCap = Undefined]
           ELSE gauge]

\* updateOnchainGaugesWithSubgraphData: a gauge with a subgraph record takes
\* its network, recipient and addedTimestamp from the record.
UpdateOnchainGaugesWithSubgraphData(onchain, subgraphList) ==
    LET subgraphGaugesByAddress == KeyByGaugeAddress(subgraphList)
    IN [i \in 1..Len(onchain) |->
           LET gauge == onchain[i] IN
           IF gauge.gaugeAddress \in DOMAIN subgraphGaugesByAddress
           THEN LET subGraphGauge == subgraphGaugesByAddress[gauge.gaugeAddress]
                IN [gauge EXCEPT !.isInSubgraph = TRUE,
                                 !.network = subGraphGauge.chain,
                                 !.recipient = subGraphGauge.recipient,
                                 !.addedTimestamp = subGraphGauge.addedTimestamp]
           ELSE gauge]

----------------------------------------------------------------------------
(* Related-record resolution and Persistence Writer                        *)

\* Mutant of the filter of findStakingGaugeId: the gauge's own address on every
\* chain.
MainnetGaugeAddressOrRecipient_OwnAddress(votingGauge) ==
    Some(votingGauge.gaugeAddress)

\* The gaugeAddress findStakingGaugeId filters on: the gauge's own address on
\* MAINNET, its lower-cased recipient (if any) elsewhere.
MainnetGaugeAddressOrRecipient(votingGauge) ==
    IF votingGauge.network = "MAINNET"
    THEN Some(votingGauge.gaugeAddress)
    ELSE IF IsDefined(votingGauge.recipient)
         THEN Some(ToLowerCase(votingGauge.recipient[1]))
         ELSE Undefined

\* The rows prismaPoolStakingGauge.findFirst may return: Prisma drops a filter
\* whose value is undefined, and without orderBy any matching row may come
\* first.
FindFirstMatches(votingGauge) ==
    LET chain == votingGauge.network
        key == MainnetGaugeAddressOrRecipient(votingGauge)
    IN {row \in staking :
           /\ row.chain = chain
           /\ IsDefined(key) => row.gaugeAddress = key[1]}

\* The outcomes of the findFirst: a matching row, or null when there is none.
FindFirstResults(votingGauge) ==
    IF FindFirstMatches(votingGauge) = {}
    THEN {Undefined}
    ELSE {Some(row) : row \in FindFirstMatches(votingGauge)}

\* Mutant of findStakingGaugeId: a missing row is an error for every gauge.
FindStakingGaugeId_AlwaysThrows(votingGauge, gauge) ==
    IF ~IsDefined(gauge)
    THEN Threw([kind |-> "staking_gauge_not_found", votingGauge |-> votingGauge])
    ELSE Returned(Some(gauge[1].id))

\* Mutant of findStakingGaugeId: a missing row is an error for no gauge.
FindStakingGaugeId_NeverThrows(votingGauge, gauge) ==
    IF ~IsDefined(gauge)
    THEN Returned(Undefined)
    ELSE Returned(Some(gauge[1].id))

\* findStakingGaugeId after its findFirst returned gauge: the row's id; for a
\* missing row an error if the voting gauge is valid, undefined otherwise.
FindStakingGaugeId(votingGauge, gauge) ==
    IF ~IsDefined(gauge)
    THEN IF IsValidForVotingList(votingGauge)
         THEN Threw([kind |-> "staking_gauge_not_found", votingGauge |-> votingGauge])
         ELSE Returned(Undefined)
    ELSE Returned(Some(gauge[1].id))

\* The upsertFields of saveVotingGauge.
UpsertFields(gauge) ==
    [id |-> gauge.gaugeAddress,
     chain |-> gauge.network,
     gaugeAddress |-> gauge.gaugeAddress,
     relativeWeight |-> NumberToString(gauge.relativeWeight),
     relativeWeightCap |-> gauge.relativeWeightCap,
     stakingGaugeId |-> gauge.stakingGaugeId,
     status |-> IF gauge.isKilled THEN "KILLED" ELSE "ACTIVE",
     addedTimestamp |-> gauge.addedTimestamp]

\* saveVotingGauge up to its await: the upsert it issues, none for a gauge that
\* is not valid for the voting list.
SaveVotingGauge(gauge) ==
    IF ~IsValidForVotingList(gauge) THEN Undefined ELSE Some(UpsertFields(gauge))

SameKey(row, fields) == row.id = fields.id /\ row.chain = fields.chain

\* The columns of prismaVotingGauge whose value in upsertFields may be
\* undefined.
OptionalColumns == {"relativeWeightCap", "stakingGaugeId", "addedTimestamp"}

\* The update branch of the upsert: Prisma leaves a column alone when the data
\* gives undefined for it, and sets every other column.
PrismaUpdate(row, data) ==
    [column \in DOMAIN row |->
        IF column \in OptionalColumns /\ ~IsDefined(data[column])
        THEN row[column]
        ELSE data[column]]

\* Mutant of the upsert: the table is left with the upserted row alone.
Upsert_Prunes(table, fields) == SetToBag({fields})

\* Mutant of the upsert: a row that exists is kept as it is.
Upsert_KeepsExisting(table, fields) ==
    IF \E row \in DOMAIN table : SameKey(row, fields)
    THEN table
    ELSE table (+) SetToBag({fields})

\* Mutant of the upsert: rows are matched on chain alone, so that the upserts of
\* two gauges of one chain write the same row.
Upsert_KeyedByChain(table, fields) ==
    LET existing == {row \in DOMAIN table : row.chain = fields.chain}
        others == {row \in DOMAIN table : row.chain # fields.chain}
    IN IF existing = {}
       THEN table (+) SetToBag({fields})
       ELSE [row \in others |-> table[row]]
                (+) SetToBag({PrismaUpdate(row, fields) : row \in existing})

\* prismaVotingGauge.upsert on id_chain: the row with that key is updated with
\* upsertFields, or a row is created from them (an undefined column is null).
Upsert(table, fields) ==
    LET existing == {row \in DOMAIN table : SameKey(row, fields)}
        others == {row \in DOMAIN table : ~SameKey(row, fields)}
    IN IF existing = {}
       THEN table (+) SetToBag({fields})
       ELSE [row \in others |-> table[row]]
                (+) SetToBag({PrismaUpdate(row, fields) : row \in existing})

KeyOf(row) == [id |-> row.id, chain |-> row.chain]

----------------------------------------------------------------------------
(* The run                                                                 *)

NoTasks == <<>>

Settled(task) == task.pc \in {"returned", "threw"}

Quiescent == \A i \in 1..Len(tasks) : Settled(tasks[i])

\* toPrismaNetwork has not been called on its own.
NetworkIdle ==
    /\ names = <<>>
    /\ networks = <<>>

\* syncJoinExits is not in use: no events, no call.
JoinExitsIdle ==
    /\ addRemoveEvents = {}
    /\ poolEvents = {}
    /\ syncPc = "idle"
    /\ latestEvent = Undefined
    /\ addRemoves = <<>>
    /\ syncReturned = Undefined
    /\ syncErrors = 0

\* syncPools is not in use: no pools, no call.
PoolsIdle ==
    /\ poolIds = <<>>
    /\ poolsWithUSD = <<>>
    /\ poolDynamicDataTable = {}
    /\ poolTokenDynamicDataTable = {}
    /\ poolsPc = [at |-> "idle"]
    /\ consoleErrors = <<>>
    /\ poolsReturned = Undefined

\* BeetsService is not in use: empty caches, no call.
BeetsIdle ==
    /\ memCache = Undefined
    /\ sharedCache = Undefined
    /\ protocolSource = 0
    /\ requests = <<>>

\* No call of the other programs is under way.
OthersIdle ==
    /\ NetworkIdle
    /\ JoinExitsIdle
    /\ PoolsIdle
    /\ BeetsIdle

Init ==
    /\ \E focus \in 1..NumGauges, case \in GaugeCases :
          LET cases == [i \in 1..NumGauges |->
                           IF i = focus THEN case ELSE SiblingCase(i)] IN
          /\ registry = RegistryOf(cases)
          /\ subgraph = SubgraphOf(cases)
          /\ staking = StakingOf(cases)
    /\ store = StaleRows
    /\ pc = "idle"
    /\ addresses = <<>>
    /\ weightCaps = Undefined
    /\ onchainGauges = <<>>
    /\ subgraphGauges = <<>>
    /\ votingGauges = <<>>
    /\ tasks = NoTasks
    /\ promise = "none"
    /\ returned = Undefined
    /\ runError = Undefined
    /\ storeChanged = FALSE
    /\ prevRun = "none"
    /\ prevCommitted = {}
    /\ written = {}
    /\ OthersIdle

\* The calls fetchOnchainVotingGauges awaits one after the other.
OnchainReads ==
    <<"n_gauge_types", "gauge_type_names", "gauge_relative_weight", "gauge_types",
      "is_killed", "aggregate3">>

\* The position of a run that waits for the k-th of these calls; the first is
\* issued when getVotingGaugeAddresses has returned.
AwaitingOnchainRead(k) == IF k = 1 THEN "addresses" ELSE OnchainReads[k]

\* The scheduler starts a run: getVotingGaugeAddresses is called and n_gauges()
\* answers; the multicall of gauges(index) is issued.
StartRun ==
    /\ pc \in {"idle", "done", "failed"}
    /\ Quiescent
    /\ pc' = "gauges"
    /\ addresses' = <<>>
    /\ weightCaps' = Undefined
    /\ onchainGauges' = <<>>
    /\ subgraphGauges' = <<>>
    /\ votingGauges' = <<>>
    /\ tasks' = NoTasks
    /\ promise' = "none"
    /\ returned' = Undefined
    /\ runError' = Undefined
    /\ storeChanged' = FALSE
    /\ prevRun' = IF pc = "idle" THEN "none" ELSE pc
    /\ prevCommitted' = {KeyOf(tasks[i].fields[1]) :
                            i \in {j \in 1..Len(tasks) :
                                      /\ tasks[j].pc = "returned"
                                      /\ IsDefined(tasks[j].fields)}}
    /\ UNCHANGED <<otherPrograms, upstream, store, written>>

\* The multicall of fetchGaugeAddresses answers: getVotingGaugeAddresses
\* returns, and fetchOnchainVotingGauges(addresses) is called.
FetchGaugeAddressesAnswers ==
    /\ pc = "gauges"
    /\ pc' = "addresses"
    /\ addresses' = GetVotingGaugeAddresses
    /\ UNCHANGED <<otherPrograms, upstream, store, weightCaps, onchainGauges, subgraphGauges,
                   votingGauges, tasks, promise, returned, runError, history>>

\* One of the calls fetchOnchainVotingGauges awaits before the last answers,
\* and the next is issued.
OnchainReadAnswers ==
    /\ \E k \in 1..(Len(OnchainReads) - 1) :
          /\ pc = AwaitingOnchainRead(k)
          /\ pc' = AwaitingOnchainRead(k + 1)
    /\ UNCHANGED <<otherPrograms, upstream, store, addresses, weightCaps, onchainGauges,
                   subgraphGauges, votingGauges, tasks, promise, returned, runError,
                   history>>

\* The last call of fetchOnchainVotingGauges answers and the gauges are built;
\* an error ends the run.
FetchOnchain ==
    /\ pc = AwaitingOnchainRead(Len(OnchainReads))
    /\ LET result == FetchOnchainVotingGauges(addresses) IN
       IF result.threw
       THEN /\ pc' = "failed"
            /\ runError' = Some(result.error)
            /\ UNCHANGED onchainGauges
       ELSE /\ pc' = "onchain"
            /\ onchainGauges' = result.value
            /\ UNCHANGED runError
    /\ LET caps == FetchRelativeWeightCaps(addresses) IN
       weightCaps' = IF caps.threw THEN Undefined ELSE Some(caps.value)
    /\ UNCHANGED <<otherPrograms, upstream, store, addresses, subgraphGauges, votingGauges,
                   tasks, promise, returned, history>>

\* fetchVotingGaugesFromSubgraph(addresses): getRootGaugesForIds answers and
\* the root gauges are mapped; an error of the map ends the run, otherwise
\* getLiquidityGaugesForIds is issued.
RootGaugesAnswer ==
    /\ pc = "onchain"
    /\ LET l2RootGauges == MapRootGauges(ForIds(subgraph.rootGauges, addresses)) IN
       IF l2RootGauges.threw
       THEN /\ pc' = "failed"
            /\ runError' = Some(l2RootGauges.error)
       ELSE /\ pc' = "liquidityGauges"
            /\ UNCHANGED runError
    /\ UNCHANGED <<otherPrograms, upstream, store, addresses, weightCaps, onchainGauges,
                   subgraphGauges, votingGauges, tasks, promise, returned, history>>

\* getLiquidityGaugesForIds answers and fetchVotingGaugesFromSubgraph returns
\* its list.
FetchSubgraph ==
    /\ pc = "liquidityGauges"
    /\ LET result == FetchVotingGaugesFromSubgraph(addresses) IN
       IF result.threw
       THEN /\ pc' = "failed"
            /\ runError' = Some(result.error)
            /\ UNCHANGED subgraphGauges
       ELSE /\ pc' = "subgraph"
            /\ subgraphGauges' = result.value
            /\ UNCHANGED runError
    /\ UNCHANGED <<otherPrograms, upstream, store, addresses, weightCaps, onchainGauges,
                   votingGauges, tasks, promise, returned, history>>

\* updateOnchainGaugesWithSubgraphData(onchainGauges, subgraphGauges): the
\* gauges are updated in place, so onchainGauges holds the merged gauges too.
Update ==
    /\ pc = "subgraph"
    /\ pc' = "merged"
    /\ votingGauges' = UpdateOnchainGaugesWithSubgraphData(onchainGauges, subgraphGauges)
    /\ onchainGauges' = votingGauges'
    /\ UNCHANGED <<otherPrograms, upstream, store, addresses, weightCaps, subgraphGauges, tasks,
                   promise, returned, runError, history>>

\* The state of Promise.all and of the run after the tasks changed to ts.
AllReturned(ts) == \A i \in 1..Len(ts) : ts[i].pc = "returned"

\* Mutant of the value of Promise.all: the gauges that were upserted only.
PromiseAll_UpsertedOnly(ts) ==
    LET Upserted(t) == IsDefined(t.fields)
        kept == SelectSeq(ts, Upserted)
    IN [i \in 1..Len(kept) |-> kept[i].result[1]]

\* The value Promise.all is fulfilled with: what each callback returned, in the
\* order of the callbacks.
PromiseAll(ts) == [i \in 1..Len(ts) |-> ts[i].result[1]]

\* saveVotingGauges(votingGauges): every callback runs up to the await of its
\* findFirst; Promise.all of no callbacks is fulfilled at once.
SaveVotingGauges ==
    /\ pc = "merged"
    /\ tasks' = [i \in 1..Len(votingGauges) |->
                    [pc |-> "findFirst", found |-> Undefined,
                     fields |-> Undefined, error |-> Undefined, result |-> Undefined]]
    /\ IF Len(votingGauges) = 0
       THEN promise' = "fulfilled" /\ pc' = "done" /\ returned' = Some(PromiseAll(tasks'))
       ELSE promise' = "pending" /\ pc' = "saving" /\ UNCHANGED returned
    /\ UNCHANGED <<otherPrograms, upstream, store, addresses, weightCaps, onchainGauges,
                   subgraphGauges, votingGauges, runError, history>>

\* A callback throws: Promise.all rejects with the first error, and the run
\* reports it; the other callbacks stay in flight.
TaskThrows(i, task, error) ==
    /\ tasks' = [tasks EXCEPT ![i] = [task EXCEPT !.pc = "threw", !.error = Some(error)]]
    /\ IF promise = "pending"
       THEN promise' = "rejected" /\ pc' = "failed" /\ runError' = Some(error)
       ELSE UNCHANGED <<promise, pc, runError>>
    /\ UNCHANGED returned

\* A callback returns its gauge: when it is the last one, Promise.all is
\* fulfilled and saveVotingGauges resolves with the returned gauges.
TaskReturns(i, task, gauge) ==
    /\ tasks' = [tasks EXCEPT ![i] = [task EXCEPT !.pc = "returned", !.result = Some(gauge)]]
    /\ IF promise = "pending" /\ AllReturned(tasks')
       THEN promise' = "fulfilled" /\ pc' = "done" /\ returned' = Some(PromiseAll(tasks'))
       ELSE UNCHANGED <<promise, pc, returned>>
    /\ UNCHANGED runError

\* The findFirst of callback i answers: findStakingGaugeId throws or returns,
\* the gauge gets its stakingGaugeId and saveVotingGauge runs up to its upsert.
\* The gauge is the object fetchOnchainVotingGauges built, so the assignment
\* shows in onchainGauges too.
FindFirstAnswers(i) ==
    /\ i \in 1..Len(tasks)
    /\ tasks[i].pc = "findFirst"
    /\ \E gauge \in FindFirstResults(votingGauges[i]) :
          LET task == [tasks[i] EXCEPT !.found = gauge]
              stakingId == FindStakingGaugeId(votingGauges[i], gauge)
          IN IF stakingId.threw
             THEN /\ TaskThrows(i, task, stakingId.error)
                  /\ UNCHANGED <<votingGauges, onchainGauges>>
             ELSE LET saved == [votingGauges[i] EXCEPT !.stakingGaugeId = stakingId.value]
                      upsert == SaveVotingGauge(saved)
                  IN /\ votingGauges' = [votingGauges EXCEPT ![i] = saved]
                     /\ onchainGauges' = [onchainGauges EXCEPT ![i].stakingGaugeId =
                                              stakingId.value]
                     /\ IF IsDefined(upsert)
                        THEN /\ tasks' = [tasks EXCEPT ![i] =
                                             [task EXCEPT !.pc = "upsert", !.fields = upsert]]
                             /\ UNCHANGED <<promise, returned, pc, runError>>
                        ELSE TaskReturns(i, task, saved)
    /\ UNCHANGED <<otherPrograms, upstream, store, addresses, weightCaps, subgraphGauges,
                   history>>

\* The upsert of callback i commits.
UpsertCommits(i) ==
    /\ i \in 1..Len(tasks)
    /\ tasks[i].pc = "upsert"
    /\ store' = Upsert(store, tasks[i].fields[1])
    /\ storeChanged' = (storeChanged \/ store' # store)
    /\ written' = written \cup {KeyOf(tasks[i].fields[1])}
    /\ TaskReturns(i, tasks[i], votingGauges[i])
    /\ UNCHANGED <<otherPrograms, upstream, addresses, weightCaps, onchainGauges, subgraphGauges,
                   votingGauges, prevRun, prevCommitted>>

\* Mutant of the failing upsert: the failure also ends every callback that is
\* still in flight.
UpsertFails_CancelsOthers(i) ==
    /\ i \in 1..Len(tasks)
    /\ tasks[i].pc = "upsert"
    /\ \A j \in 1..Len(tasks) :
          IsDefined(tasks[j].error) => tasks[j].error[1].kind # "upsert_failed"
    /\ tasks' = [j \in 1..Len(tasks) |->
                    IF j = i
                    THEN [tasks[j] EXCEPT !.pc = "threw",
                                          !.error = Some([kind |-> "upsert_failed",
                                                          votingGauge |-> votingGauges[i]])]
                    ELSE IF Settled(tasks[j]) THEN tasks[j]
                    ELSE [tasks[j] EXCEPT !.pc = "threw",
                                          !.error = Some([kind |-> "cancelled"])]]
    /\ IF promise = "pending"
       THEN /\ promise' = "rejected"
            /\ pc' = "failed"
            /\ runError' = Some([kind |-> "upsert_failed", votingGauge |-> votingGauges[i]])
       ELSE UNCHANGED <<promise, pc, runError>>
    /\ UNCHANGED <<otherPrograms, upstream, store, addresses, weightCaps, onchainGauges,
                   subgraphGauges, votingGauges, returned, history>>

\* The upsert of callback i fails: saveVotingGauge logs the error and rethrows.
\* The database fails at most one upsert of a run.
UpsertFails(i) ==
    /\ i \in 1..Len(tasks)
    /\ tasks[i].pc = "upsert"
    /\ \A j \in 1..Len(tasks) :
          IsDefined(tasks[j].error) => tasks[j].error[1].kind # "upsert_failed"
    /\ TaskThrows(i, tasks[i], [kind |-> "upsert_failed", votingGauge |-> votingGauges[i]])
    /\ UNCHANGED <<otherPrograms, upstream, store, addresses, weightCaps, onchainGauges,
                   subgraphGauges, votingGauges, history>>

\* deleteVotingGauges, at any time, also while a run reads or saves: the
\* table is emptied. What the run has read, returned or thrown stays as it is.
DeleteVotingGauges ==
    /\ store # EmptyBag
    /\ store' = EmptyBag
    /\ written' = {}
    /\ UNCHANGED <<otherPrograms, upstream, runVars, storeChanged, prevRun, prevCommitted>>

\* Runs of the reconciliation, one after the other, on unchanged upstream data.
Next ==
    \/ StartRun
    \/ FetchGaugeAddressesAnswers
    \/ OnchainReadAnswers
    \/ FetchOnchain
    \/ RootGaugesAnswer
    \/ FetchSubgraph
    \/ Update
    \/ SaveVotingGauges
    \/ \E i \in 1..NumGauges : FindFirstAnswers(i)
    \/ \E i \in 1..NumGauges : UpsertCommits(i)
    \/ \E i \in 1..NumGauges : UpsertFails(i)

Spec == Init /\ [][Next]_vars

\* The same runs, with deleteVotingGauges called at any time.
NextWithDelete ==
    \/ Next
    \/ DeleteVotingGauges

SpecWithDelete == Init /\ [][NextWithDelete]_vars

-----------------------------------------------------------------------------
(* toPrismaNetwork called on its own                                       *)

\* Most names handed to toPrismaNetwork in one behaviour.
MaxNames == 2

\* Network names in several spellings: chain names, aliases, unsupported names.
NetworkNames ==
    {"Ethereum", "ETHEREUM", "ethereum", "eThErEuM",
     "veBAL", "VEBAL", "vebal", "VeBal",
     "PolygonZkEvm", "POLYGONZKEVM", "polygonzkevm", "PolygonZKEVM",
     "mainnet", "MAINNET", "Mainnet", "mAiNnEt",
     "Arbitrum", "ARBITRUM", "arbitrum", "aRbItRuM",
     "Polygon", "POLYGON", "polygon", "pOlYgOn",
     "ZKEVM", "zkevm", "ZkEvm",
     "ZkSync", "ZKSYNC", "zksync", "zkSync",
     "Solana", "SOLANA", "solana",
     "Liquidity Mining Committee", "LIQUIDITY MINING COMMITTEE"}

\* The reconciliation is not running and its tables are empty.
RepositoryIdle ==
    /\ registry = <<>>
    /\ subgraph = [rootGauges |-> <<>>, liquidityGauges |-> <<>>]
    /\ staking = {}
    /\ store = EmptyBag
    /\ pc = "idle"
    /\ addresses = <<>>
    /\ weightCaps = Undefined
    /\ onchainGauges = <<>>
    /\ subgraphGauges = <<>>
    /\ votingGauges = <<>>
    /\ tasks = NoTasks
    /\ promise = "none"
    /\ returned = Undefined
    /\ runError = Undefined
    /\ storeChanged = FALSE
    /\ prevRun = "none"
    /\ prevCommitted = {}
    /\ written = {}

repository == <<upstream, store, runVars, history>>

InitNetwork ==
    /\ RepositoryIdle
    /\ JoinExitsIdle
    /\ PoolsIdle
    /\ BeetsIdle
    /\ \E n \in 1..MaxNames : names \in [1..n -> NetworkNames]
    /\ networks = <<>>

\* One call toPrismaNetwork(names[k]) for the next name k.
CallToPrismaNetwork ==
    /\ Len(networks) < Len(names)
    /\ networks' = Append(networks, ToPrismaNetwork(names[Len(networks) + 1]))
    /\ UNCHANGED <<names, repository, joinExits, pools, beets>>

NextNetwork == CallToPrismaNetwork

SpecNetwork == InitNetwork /\ [][NextNetwork]_vars

-----------------------------------------------------------------------------
(* syncJoinExits: join and exit events from the subgraph into the database *)

\* `first` of the AddRemoves query: 1000 in the code.
PageSize == 2

\* Number of AddRemove entities the subgraph holds.
MaxEvents == 4

\* Highest block number of an AddRemove entity.
MaxBlock == 3

\* Number of times createMany rejects.
MaxCreateFailures == 1

\* The AddRemove entity with the given id in the given block.
AddRemove(id, blockNumber) ==
    [id |-> id,
     type |-> IF id % 2 = 1 THEN "Add" ELSE "Remove",
     blockNumber |-> blockNumber,
     blockTimestamp |-> 100 * blockNumber]

\* joinExitV3Transformer for one entity: the prismaPoolEvent row.
JoinExitV3Transformer(event) ==
    [id |-> event.id,
     type |-> IF event.type = "Add" THEN "JOIN" ELSE "EXIT",
     protocolVersion |-> 1,
     blockNumber |-> event.blockNumber,
     blockTimestamp |-> event.blockTimestamp]

\* prismaPoolEvent.findFirst ordered by blockTimestamp desc: a row with the
\* greatest blockTimestamp, null for an empty table.
FindLatestEvent(table) ==
    IF table = {} THEN {Undefined}
    ELSE {Some(row) : row \in {r \in table :
                                  \A other \in table :
                                      other.blockTimestamp <= r.blockTimestamp}}

\* The `where` of the AddRemoves query: blockNumber_gt the block of the latest
\* stored event; no filter without latest event or for block number 0.
Where(latest, event) ==
    IF IsDefined(latest) /\ latest[1].blockNumber # 0
    THEN event.blockNumber > latest[1].blockNumber
    ELSE TRUE

\* The answers the subgraph may give to AddRemoves(first, where, orderBy
\* blockNumber asc): the first `first` matching entities by block number, those
\* of one block in any order.
AddRemovesPages(first, latest) ==
    LET matching == {e \in addRemoveEvents : Where(latest, e)}
        n == IF Cardinality(matching) < first THEN Cardinality(matching) ELSE first
    IN {page \in [1..n -> matching] :
           /\ \A i, j \in 1..n : i < j =>
                 /\ page[i] # page[j]
                 /\ page[i].blockNumber <= page[j].blockNumber
           /\ \A e \in matching :
                 (\A i \in 1..n : page[i] # e) =>
                     \A i \in 1..n : page[i].blockNumber <= e.blockNumber}

\* prismaPoolEvent.createMany with skipDuplicates: rows whose id is in the
\* table are skipped.
CreateManySkipDuplicates(table, data) ==
    table \cup {data[i] : i \in {j \in 1..Len(data) :
                                    \A row \in table : row.id # data[j].id}}

\* The subgraph holds MaxEvents entities in blocks 1..MaxBlock, ids ascending
\* with the block number; the table is empty.
InitJoinExits ==
    /\ RepositoryIdle
    /\ NetworkIdle
    /\ PoolsIdle
    /\ BeetsIdle
    /\ \E blockOf \in [1..MaxEvents -> 1..MaxBlock] :
          /\ \A i, j \in 1..MaxEvents : i < j => blockOf[i] <= blockOf[j]
          /\ addRemoveEvents = {AddRemove(i, blockOf[i]) : i \in 1..MaxEvents}
    /\ poolEvents = {}
    /\ syncPc = "idle"
    /\ latestEvent = Undefined
    /\ addRemoves = <<>>
    /\ syncReturned = Undefined
    /\ syncErrors = 0

\* syncJoinExits is called and reads the latest stored event.
FindLatest ==
    /\ syncPc = "idle"
    /\ latestEvent' \in FindLatestEvent(poolEvents)
    /\ syncPc' = "latest"
    /\ addRemoves' = <<>>
    /\ UNCHANGED <<addRemoveEvents, poolEvents, syncReturned, syncErrors, repository,
                   networkCalls, pools, beets>>

\* The AddRemoves query answers.
FetchAddRemoves ==
    /\ syncPc = "latest"
    /\ addRemoves' \in AddRemovesPages(PageSize, latestEvent)
    /\ syncPc' = "fetched"
    /\ UNCHANGED <<addRemoveEvents, poolEvents, latestEvent, syncReturned, syncErrors,
                   repository, networkCalls, pools, beets>>

\* dbEntries of syncJoinExits: the fetched entities, transformed.
DbEntries == [i \in 1..Len(addRemoves) |-> JoinExitV3Transformer(addRemoves[i])]

\* joinExitV3Transformer answers; the number of entries is logged and
\* joinExitsUsd is called.
JoinExitV3TransformerAnswers ==
    /\ syncPc = "fetched"
    /\ syncPc' = "transformed"
    /\ UNCHANGED <<addRemoveEvents, poolEvents, latestEvent, addRemoves, syncReturned,
                   syncErrors, repository, networkCalls, pools, beets>>

\* joinExitsUsd answers; createMany is issued.
JoinExitsUsdAnswers ==
    /\ syncPc = "transformed"
    /\ syncPc' = "createMany"
    /\ UNCHANGED <<addRemoveEvents, poolEvents, latestEvent, addRemoves, syncReturned,
                   syncErrors, repository, networkCalls, pools, beets>>

\* createMany commits, and the ids of the entries are returned.
CreateMany ==
    /\ syncPc = "createMany"
    /\ poolEvents' = CreateManySkipDuplicates(poolEvents, DbEntries)
    /\ syncReturned' = Some([i \in 1..Len(DbEntries) |-> DbEntries[i].id])
    /\ syncPc' = "idle"
    /\ UNCHANGED <<addRemoveEvents, latestEvent, addRemoves, syncErrors, repository,
                   networkCalls, pools, beets>>

\* createMany rejects: the catch logs the error, no row is stored, and the ids
\* of the entries are returned all the same. The database fails at most
\* MaxCreateFailures times.
CreateManyRejects ==
    /\ syncPc = "createMany"
    /\ syncErrors < MaxCreateFailures
    /\ syncErrors' = syncErrors + 1
    /\ syncReturned' = Some([i \in 1..Len(DbEntries) |-> DbEntries[i].id])
    /\ syncPc' = "idle"
    /\ UNCHANGED <<addRemoveEvents, poolEvents, latestEvent, addRemoves, repository,
                   networkCalls, pools, beets>>

\* Calls of syncJoinExits, one after the other, on a subgraph that adds no
\* events and a database that fails createMany a bounded number of times.
NextJoinExits ==
    \/ FindLatest
    \/ FetchAddRemoves
    \/ JoinExitV3TransformerAnswers
    \/ JoinExitsUsdAnswers
    \/ CreateMany
    \/ CreateManyRejects

SpecJoinExits == InitJoinExits /\ [][NextJoinExits]_vars

\* The caller keeps calling syncJoinExits, and every call runs to its end.
FairSpecJoinExits == SpecJoinExits /\ WF_vars(NextJoinExits)

-----------------------------------------------------------------------------
(* syncPools: on-chain pool state into the pool tables                     *)

\* Number of pool ids syncPools is called with.
NumPools == 2

\* Number of tokens of a pool.
TokensPerPool == 2

\* The id of pool i and the id of the prismaPoolTokenDynamicData row of its
\* token k.
PoolId(i) == [pool |-> i]

PoolTokenId(i, k) == [pool |-> i, token |-> k]

\* The rows the tables hold for pool i before syncPools runs.
StalePoolDynamicData(i) ==
    [poolId |-> PoolId(i), chain |-> "SEPOLIA", totalShares |-> 0, totalLiquidity |-> 0]

StalePoolTokenDynamicData(i, k) ==
    [id |-> PoolTokenId(i, k), chain |-> "SEPOLIA", balance |-> 0, balanceUSD |-> 0]

\* fetchPoolData: what the vault says about the pools.
FetchPoolData(idList) ==
    [j \in 1..Len(idList) |->
        [id |-> idList[j],
         totalSupply |-> 10 * idList[j].pool,
         balances |-> [k \in 1..TokensPerPool |-> idList[j].pool + k]]]

\* onchainPoolUpdate followed by poolUpsertsUsd for one pool: the data for its
\* prismaPoolDynamicData row and for the rows of its tokens, with USD values
\* at a price of 2.
PoolUpsertsUsd(onchainData, chain) ==
    [j \in 1..Len(onchainData) |->
        [poolDynamicData |->
            [poolId |-> onchainData[j].id, chain |-> chain,
             totalShares |-> onchainData[j].totalSupply,
             totalLiquidity |-> 2 * (onchainData[j].balances[1]
                                        + onchainData[j].balances[TokensPerPool])],
         poolTokenDynamicData |->
            [k \in 1..TokensPerPool |->
                [id |-> PoolTokenId(onchainData[j].id.pool, k), chain |-> chain,
                 balance |-> onchainData[j].balances[k],
                 balanceUSD |-> 2 * onchainData[j].balances[k]]]]]

\* prisma.prismaPoolDynamicData.update on poolId_chain: the row is replaced by
\* the data; without such a row the update throws.
UpdatePoolDynamicData(table, data) ==
    LET existing == {row \in table : row.poolId = data.poolId /\ row.chain = data.chain}
    IN IF existing = {}
       THEN Threw([kind |-> "record_not_found", key |-> data.poolId])
       ELSE Returned((table \ existing) \cup {data})

\* prisma.prismaPoolTokenDynamicData.update on id_chain.
UpdatePoolTokenDynamicData(table, data) ==
    LET existing == {row \in table : row.id = data.id /\ row.chain = data.chain}
    IN IF existing = {}
       THEN Threw([kind |-> "record_not_found", key |-> data.id])
       ELSE Returned((table \ existing) \cup {data})

\* The rows of all pools but, possibly, one missing row.
PoolRowKeys ==
    {PoolId(i) : i \in 1..NumPools}
        \cup {PoolTokenId(i, k) : i \in 1..NumPools, k \in 1..TokensPerPool}

InitPools ==
    /\ RepositoryIdle
    /\ NetworkIdle
    /\ JoinExitsIdle
    /\ BeetsIdle
    /\ poolIds = [i \in 1..NumPools |-> PoolId(i)]
    /\ poolsWithUSD = <<>>
    /\ \E missing \in SUBSET PoolRowKeys :
          /\ Cardinality(missing) <= 1
          /\ poolDynamicDataTable =
                {StalePoolDynamicData(i) : i \in {j \in 1..NumPools : PoolId(j) \notin missing}}
          /\ poolTokenDynamicDataTable =
                {StalePoolTokenDynamicData(pair[1], pair[2]) :
                     pair \in {q \in (1..NumPools) \X (1..TokensPerPool) :
                                  PoolTokenId(q[1], q[2]) \notin missing}}
    /\ poolsPc = [at |-> "idle"]
    /\ consoleErrors = <<>>
    /\ poolsReturned = Undefined

\* The position after the work on pool j ended: the next pool, or the return
\* of ids after the last one.
NextPool(j) ==
    IF j < Len(poolsWithUSD)
    THEN /\ poolsPc' = [at |-> "pool", pool |-> j + 1, token |-> 0]
         /\ UNCHANGED poolsReturned
    ELSE /\ poolsPc' = [at |-> "returned"]
         /\ poolsReturned' = Some(poolIds)

\* syncPools is called and fetchPoolData answers; prismaToken.findMany is
\* issued.
FetchPoolDataAnswers ==
    /\ poolsPc.at = "idle"
    /\ poolsPc' = [at |-> "findMany"]
    /\ UNCHANGED <<poolIds, poolsWithUSD, poolDynamicDataTable, poolTokenDynamicDataTable,
                   consoleErrors, poolsReturned, repository, networkCalls, joinExits,
                   beets>>

\* prismaToken.findMany answers; the pools are transformed and poolUpsertsUsd
\* is called.
FindManyAnswers ==
    /\ poolsPc.at = "findMany"
    /\ poolsPc' = [at |-> "poolUpsertsUsd"]
    /\ UNCHANGED <<poolIds, poolsWithUSD, poolDynamicDataTable, poolTokenDynamicDataTable,
                   consoleErrors, poolsReturned, repository, networkCalls, joinExits,
                   beets>>

\* poolUpsertsUsd answers and the loop reaches its first update.
FetchPools ==
    /\ poolsPc.at = "poolUpsertsUsd"
    /\ poolsWithUSD' = PoolUpsertsUsd(FetchPoolData(poolIds), "SEPOLIA")
    /\ IF Len(poolsWithUSD') = 0
       THEN poolsPc' = [at |-> "returned"] /\ poolsReturned' = Some(poolIds)
       ELSE poolsPc' = [at |-> "pool", pool |-> 1, token |-> 0] /\ UNCHANGED poolsReturned
    /\ UNCHANGED <<poolIds, poolDynamicDataTable, poolTokenDynamicDataTable, consoleErrors,
                   repository, networkCalls, joinExits, beets>>

\* fetchPoolData, findMany or poolUpsertsUsd rejects: syncPools rejects before
\* the loop.
FetchPoolsFails ==
    /\ poolsPc.at \in {"idle", "findMany", "poolUpsertsUsd"}
    /\ poolsPc' = [at |-> "rejected"]
    /\ UNCHANGED <<poolIds, poolsWithUSD, poolDynamicDataTable, poolTokenDynamicDataTable,
                   consoleErrors, poolsReturned, repository, networkCalls, joinExits,
                   beets>>

\* The catch of the loop body for pool j: the error is logged and the loop
\* goes on with the next pool.
CatchAndContinue(j, error) ==
    /\ consoleErrors' = Append(consoleErrors, [pool |-> j, error |-> error])
    /\ NextPool(j)

\* Mutant of the catch: the error is logged and thrown again.
UpdateFails_Rethrows(j, k, error) ==
    /\ consoleErrors' = Append(consoleErrors, [pool |-> j, error |-> error])
    /\ poolsPc' = [at |-> "rejected"]
    /\ UNCHANGED poolsReturned

\* An update of pool j, of its dynamic data (k = 0) or of its token k, throws.
UpdateFails(j, k, error) == CatchAndContinue(j, error)

\* prismaPoolDynamicData.update of the current pool commits or throws for a
\* missing row.
UpdateDynamicData ==
    /\ poolsPc.at = "pool" /\ poolsPc.token = 0
    /\ LET j == poolsPc.pool
           result == UpdatePoolDynamicData(poolDynamicDataTable,
                                           poolsWithUSD[j].poolDynamicData)
       IN IF result.threw
          THEN /\ UpdateFails(j, 0, result.error)
               /\ UNCHANGED poolDynamicDataTable
          ELSE /\ poolDynamicDataTable' = result.value
               /\ UNCHANGED consoleErrors
               /\ IF Len(poolsWithUSD[j].poolTokenDynamicData) = 0
                  THEN NextPool(j)
                  ELSE /\ poolsPc' = [poolsPc EXCEPT !.token = 1]
                       /\ UNCHANGED poolsReturned
    /\ UNCHANGED <<poolIds, poolsWithUSD, poolTokenDynamicDataTable, repository, networkCalls,
                   joinExits, beets>>

\* prismaPoolTokenDynamicData.update of the current token commits or throws
\* for a missing row.
UpdateTokenData ==
    /\ poolsPc.at = "pool" /\ poolsPc.token > 0
    /\ LET j == poolsPc.pool
           k == poolsPc.token
           result == UpdatePoolTokenDynamicData(poolTokenDynamicDataTable,
                                                poolsWithUSD[j].poolTokenDynamicData[k])
       IN IF result.threw
          THEN /\ UpdateFails(j, k, result.error)
               /\ UNCHANGED poolTokenDynamicDataTable
          ELSE /\ poolTokenDynamicDataTable' = result.value
               /\ UNCHANGED consoleErrors
               /\ IF k = Len(poolsWithUSD[j].poolTokenDynamicData)
                  THEN NextPool(j)
                  ELSE /\ poolsPc' = [poolsPc EXCEPT !.token = k + 1]
                       /\ UNCHANGED poolsReturned
    /\ UNCHANGED <<poolIds, poolsWithUSD, poolDynamicDataTable, repository, networkCalls,
                   joinExits, beets>>

\* The update under way is rejected by the database (connection lost, timeout).
UpdateRejected ==
    /\ poolsPc.at = "pool"
    /\ UpdateFails(poolsPc.pool, poolsPc.token,
                   [kind |-> "database_error",
                    key |-> IF poolsPc.token = 0 THEN PoolId(poolsPc.pool)
                            ELSE PoolTokenId(poolsPc.pool, poolsPc.token)])
    /\ UNCHANGED <<poolIds, poolsWithUSD, poolDynamicDataTable, poolTokenDynamicDataTable,
                   repository, networkCalls, joinExits, beets>>

NextPools ==
    \/ FetchPoolDataAnswers
    \/ FindManyAnswers
    \/ FetchPools
    \/ FetchPoolsFails
    \/ UpdateDynamicData
    \/ UpdateTokenData
    \/ UpdateRejected

SpecPools == InitPools /\ [][NextPools]_vars

-----------------------------------------------------------------------------
(* BeetsService.getProtocolData and cacheProtocolData (src/unnamed/part_000)*)

\* Number of calls that may be under way at once.
MaxRequests == 1

\* Number of times the upstream figures change.
MaxChanges == 1

\* What balancerSubgraphService.getProtocolData reports after n changes: now,
\* and for the block of 24 hours ago.
ProtocolTotals(n) ==
    [now |-> [totalSwapVolume |-> 100 + 10 * n, poolCount |-> 3 + n],
     prev |-> [totalSwapVolume |-> 95 + 8 * n]]

\* blocksSubgraphService.getBlockFrom24HoursAgo after n changes.
BlockFrom24HoursAgo(n) == [number |-> 1000 + n]

\* What balancerSubgraphService.getProtocolData reports for a block.
ProtocolTotalsOfBlock(number) == ProtocolTotals(number - 1000).prev

\* The reads cacheProtocolData awaits one after the other before it assembles
\* protocolData.
UpstreamReads ==
    <<"getProtocolData", "getBeetsPrice", "getCirculatingSupply",
      "getBlockFrom24HoursAgo", "getProtocolDataOfBlock", "getPools", "getConfig">>

\* The protocolData cacheProtocolData assembles from the current totals and
\* the totals of 24 hours ago, as it read them.
ProtocolData(totals, prev) ==
    [totalSwapVolume |-> totals.totalSwapVolume,
     poolCount |-> totals.poolCount,
     swapVolume24h |-> totals.totalSwapVolume - prev.totalSwapVolume]

\* A call that is not under way.
NoRequest ==
    [pc |-> "idle", method |-> "none", memCached |-> Undefined, cached |-> Undefined,
     reads |-> 0, totals |-> Undefined, block |-> Undefined, prev |-> Undefined,
     protocolData |-> Undefined, result |-> Undefined]

Finished(request) == request.pc \in {"idle", "returned", "rejected"}

InitBeets ==
    /\ RepositoryIdle
    /\ NetworkIdle
    /\ JoinExitsIdle
    /\ PoolsIdle
    /\ memCache = Undefined
    /\ sharedCache = Undefined
    /\ protocolSource = 0
    /\ requests = [r \in 1..MaxRequests |-> NoRequest]

\* cacheProtocolData is entered and waits for its upstream reads.
EnterCacheProtocolData(request) == [request EXCEPT !.pc = "aggregating"]

\* getProtocolData is called: the in-process cache is read; a hit is returned
\* at once, after a miss the shared cache is asked.
GetProtocolData(r) ==
    /\ Finished(requests[r])
    /\ LET memCached == memCache
           call == [NoRequest EXCEPT !.method = "getProtocolData", !.memCached = memCached]
       IN requests' = [requests EXCEPT ![r] =
              IF IsDefined(memCached)
              THEN [call EXCEPT !.pc = "returned", !.result = memCached]
              ELSE [call EXCEPT !.pc = "getObjectValue"]]
    /\ UNCHANGED <<memCache, sharedCache, protocolSource, repository, networkCalls,
                   joinExits, pools>>

\* Mutant of the shared-cache answer: a hit is returned without being put into
\* the in-process cache.
GetObjectValueAnswers_NoCopy(r) ==
    /\ requests[r].pc = "getObjectValue"
    /\ LET cached == sharedCache
           call == [requests[r] EXCEPT !.cached = cached]
       IN requests' = [requests EXCEPT ![r] =
              IF IsDefined(cached)
              THEN [call EXCEPT !.pc = "returned", !.result = cached]
              ELSE EnterCacheProtocolData(call)]
    /\ UNCHANGED <<memCache, sharedCache, protocolSource, repository, networkCalls,
                   joinExits, pools>>

\* cache.getObjectValue answers: a hit is put into the in-process cache and
\* returned; after a miss cacheProtocolData is called.
GetObjectValueAnswers(r) ==
    /\ requests[r].pc = "getObjectValue"
    /\ LET cached == sharedCache
           call == [requests[r] EXCEPT !.cached = cached]
       IN IF IsDefined(cached)
          THEN /\ memCache' = cached
               /\ requests' = [requests EXCEPT ![r] =
                                   [call EXCEPT !.pc = "returned", !.result = cached]]
          ELSE /\ requests' = [requests EXCEPT ![r] = EnterCacheProtocolData(call)]
               /\ UNCHANGED memCache
    /\ UNCHANGED <<sharedCache, protocolSource, repository, networkCalls, joinExits, pools>>

\* cache.getObjectValue rejects, and getProtocolData with it.
GetObjectValueFails(r) ==
    /\ requests[r].pc = "getObjectValue"
    /\ requests' = [requests EXCEPT ![r].pc = "rejected"]
    /\ UNCHANGED <<memCache, sharedCache, protocolSource, repository, networkCalls,
                   joinExits, pools>>

\* cacheProtocolData is called on its own.
CacheProtocolData(r) ==
    /\ Finished(requests[r])
    /\ requests' = [requests EXCEPT ![r] =
                        EnterCacheProtocolData([NoRequest EXCEPT !.method = "cacheProtocolData"])]
    /\ UNCHANGED <<memCache, sharedCache, protocolSource, repository, networkCalls,
                   joinExits, pools>>

\* The call after the read it awaits has answered: the totals and the block of
\* 24 hours ago are kept as read at that moment, the earlier totals are those
\* of the block that was read, and after the last read protocolData is
\* assembled and cache.putObjectValue is issued.
AfterUpstreamRead(request, n) ==
    LET read == UpstreamReads[request.reads + 1]
        totals == IF read = "getProtocolData"
                  THEN Some(ProtocolTotals(n).now) ELSE request.totals
        block == IF read = "getBlockFrom24HoursAgo"
                 THEN Some(BlockFrom24HoursAgo(n)) ELSE request.block
        prev == IF read = "getProtocolDataOfBlock"
                THEN Some(ProtocolTotalsOfBlock(request.block[1].number))
                ELSE request.prev
        answered == [request EXCEPT !.reads = request.reads + 1, !.totals = totals,
                                    !.block = block, !.prev = prev]
    IN IF answered.reads < Len(UpstreamReads)
       THEN answered
       ELSE [answered EXCEPT !.pc = "putObjectValue",
                             !.protocolData = Some(ProtocolData(totals[1], prev[1]))]

\* The upstream read cacheProtocolData awaits answers.
UpstreamReadAnswers(r) ==
    /\ requests[r].pc = "aggregating"
    /\ requests' = [requests EXCEPT ![r] = AfterUpstreamRead(requests[r], protocolSource)]
    /\ UNCHANGED <<memCache, sharedCache, protocolSource, repository, networkCalls,
                   joinExits, pools>>

\* The upstream read cacheProtocolData awaits rejects.
AggregateFails(r) ==
    /\ requests[r].pc = "aggregating"
    /\ requests' = [requests EXCEPT ![r].pc = "rejected"]
    /\ UNCHANGED <<memCache, sharedCache, protocolSource, repository, networkCalls,
                   joinExits, pools>>

\* cache.putObjectValue commits, and cacheProtocolData returns protocolData.
PutObjectValueAnswers(r) ==
    /\ requests[r].pc = "putObjectValue"
    /\ sharedCache' = requests[r].protocolData
    /\ requests' = [requests EXCEPT ![r].pc = "returned",
                                    ![r].result = requests[r].protocolData]
    /\ UNCHANGED <<memCache, protocolSource, repository, networkCalls, joinExits, pools>>

\* cache.putObjectValue rejects.
PutObjectValueFails(r) ==
    /\ requests[r].pc = "putObjectValue"
    /\ requests' = [requests EXCEPT ![r].pc = "rejected"]
    /\ UNCHANGED <<memCache, sharedCache, protocolSource, repository, networkCalls,
                   joinExits, pools>>

\* The entry of the in-process cache times out (15000 ms after its put).
MemCacheExpires ==
    /\ IsDefined(memCache)
    /\ memCache' = Undefined
    /\ UNCHANGED <<sharedCache, protocolSource, requests, repository, networkCalls,
                   joinExits, pools>>

\* The entry of the shared cache times out.
SharedCacheExpires ==
    /\ IsDefined(sharedCache)
    /\ sharedCache' = Undefined
    /\ UNCHANGED <<memCache, protocolSource, requests, repository, networkCalls,
                   joinExits, pools>>

\* The upstream figures change.
ProtocolSourceChanges ==
    /\ protocolSource < MaxChanges
    /\ protocolSource' = protocolSource + 1
    /\ UNCHANGED <<memCache, sharedCache, requests, repository, networkCalls,
                   joinExits, pools>>

NextBeets ==
    \/ \E r \in 1..MaxRequests : GetProtocolData(r)
    \/ \E r \in 1..MaxRequests : GetObjectValueAnswers(r)
    \/ \E r \in 1..MaxRequests : GetObjectValueFails(r)
    \/ \E r \in 1..MaxRequests : CacheProtocolData(r)
    \/ \E r \in 1..MaxRequests : UpstreamReadAnswers(r)
    \/ \E r \in 1..MaxRequests : AggregateFails(r)
    \/ \E r \in 1..MaxRequests : PutObjectValueAnswers(r)
    \/ \E r \in 1..MaxRequests : PutObjectValueFails(r)
    \/ MemCacheExpires
    \/ SharedCacheExpires
    \/ ProtocolSourceChanges

SpecBeets == InitBeets /\ [][NextBeets]_vars

----------------------------------------------------------------------------
(* Properties                                                              *)

\* The eligibility rule of the specification, written out.
Eligible(gauge) == (~gauge.isKilled) \/ gauge.relativeWeight > 0

\* The name of the gauge type the registry gives the gauge at an address.
TypeNameAt(address) == GaugeTypeNames[ContractAt(address).gaugeType + 1]

\* C1: isValidForVotingList is true exactly for a gauge that is not killed or
\* has relative weight > 0. Seen at both places that call it: saveVotingGauge
\* issues an upsert exactly for the eligible gauges, and findStakingGaugeId
\* throws for a missing staking gauge exactly when the gauge is eligible.
C1_EligibleIffAliveOrWeight ==
    \A i \in 1..Len(tasks) :
        LET gauge == votingGauges[i]
            task == tasks[i]
        IN /\ task.pc = "upsert" => Eligible(gauge)
           /\ task.pc = "returned" => (IsDefined(task.fields) <=> Eligible(gauge))
           /\ task.pc # "findFirst" /\ ~IsDefined(task.found) =>
                  (task.pc = "threw" <=> Eligible(gauge))

\* A killed gauge with weight 0.05 was upserted and a killed gauge with weight
\* 0 was skipped.
C1_Witness ==
    \E i, j \in 1..Len(tasks) :
        /\ votingGauges[i].isKilled /\ votingGauges[i].relativeWeight = 5
        /\ tasks[i].pc = "returned" /\ IsDefined(tasks[i].fields)
        /\ votingGauges[j].isKilled /\ votingGauges[j].relativeWeight = 0
        /\ tasks[j].pc = "returned" /\ ~IsDefined(tasks[j].fields)

\* The positions of a run before fetchOnchainVotingGauges has returned or
\* thrown.
BeforeOnchainGauges ==
    {"idle", "gauges"} \cup {AwaitingOnchainRead(k) : k \in 1..Len(OnchainReads)}

\* C2: fetchRelativeWeightCaps never throws and gives one entry per address:
\* undefined exactly for the addresses whose call failed, and for every other
\* address the decimal of the value its own call returned.
C2_WeightCapsPerCall ==
    pc \notin BeforeOnchainGauges =>
        /\ IsDefined(weightCaps)
        /\ IsDefined(runError) => runError[1].kind # "multicall_failed"
        /\ Len(addresses) = Len(registry)
        /\ DOMAIN weightCaps[1] = {addresses[i] : i \in 1..Len(addresses)}
        /\ \A i \in 1..Len(addresses) :
              LET call == registry[i].weightCapCall
                  cap == weightCaps[1][addresses[i]]
              IN IF call.success
                 THEN IsDefined(cap) /\ NumberOf(cap[1]) = call.returnData[1]
                 ELSE cap = Undefined

\* The caps were fetched with one call failing and another succeeding.
C2_Witness ==
    /\ pc = "onchain"
    /\ IsDefined(weightCaps)
    /\ \E i, j \in 1..Len(addresses) :
          /\ ~registry[i].weightCapCall.success
          /\ weightCaps[1][addresses[i]] = Undefined
          /\ registry[j].weightCapCall.success
          /\ IsDefined(weightCaps[1][addresses[j]])

\* C3: a merged gauge whose address has a subgraph record has the chain of
\* that record.
C3_ChainPrecedence ==
    \A i \in 1..Len(votingGauges) :
        \A k \in 1..Len(subgraphGauges) :
            subgraphGauges[k].gaugeAddress = votingGauges[i].gaugeAddress =>
                votingGauges[i].network = subgraphGauges[k].chain

\* A merged gauge whose gauge type names another chain than its subgraph
\* record.
C3_Witness ==
    \E i \in 1..Len(votingGauges) :
        \E k \in 1..Len(subgraphGauges) :
            /\ subgraphGauges[k].gaugeAddress = votingGauges[i].gaugeAddress
            /\ ToPrismaNetwork(TypeNameAt(votingGauges[i].gaugeAddress)).value
                   # subgraphGauges[k].chain
            /\ votingGauges[i].network = subgraphGauges[k].chain

\* The gauge type name the registry gives its entry i.
TypeNameOf(i) == TypeNameAt(registry[i].address)

\* The subgraph holds a record, root or liquidity gauge, for the address.
HasIndexRecord(address) ==
    \/ \E k \in 1..Len(subgraph.rootGauges) : subgraph.rootGauges[k].id = address
    \/ \E k \in 1..Len(subgraph.liquidityGauges) : subgraph.liquidityGauges[k].id = address

\* The gauge type name is one the pipeline drops before classification.
Administrative(name) == name = "Liquidity Mining Committee"

\* toPrismaNetwork has no chain for the name.
Unmapped(name) == ToPrismaNetwork(name).threw

\* The reported error carries the address of a gauge.
ErrorIdentifies(error, address) ==
    /\ "votingGauge" \in DOMAIN error
    /\ error.votingGauge.gaugeAddress = address

\* The run ended with the error toPrismaNetwork throws for the name.
UnmappedErrorFor(name) ==
    /\ pc = "failed"
    /\ IsDefined(runError)
    /\ runError[1].kind = "network_not_supported"
    /\ runError[1].network = ToUpperCase(name)

\* C4: once the registry was read, a gauge with no subgraph record and a type
\* name toPrismaNetwork does not map has made the run fail with an error that
\* identifies the gauge's address, and no row was written for the address.
C4_UnmappedFailsClosedNamingAddress ==
    \A i \in 1..Len(registry) :
        LET address == ToLowerCase(registry[i].address) IN
        (/\ pc \notin BeforeOnchainGauges
         /\ ~Administrative(TypeNameOf(i))
         /\ Unmapped(TypeNameOf(i))
         /\ ~HasIndexRecord(address)) =>
            /\ pc = "failed"
            /\ IsDefined(runError)
            /\ ErrorIdentifies(runError[1], address)
            /\ \A key \in written : key.id # address

\* C5: a gauge that is not administrative and has a subgraph record never
\* makes the run fail with toPrismaNetwork's error for its type name, and is
\* among the merged gauges with the chain of its record once the lists merge.
C5_MappingOnlyWithoutIndexRecord ==
    \A i \in 1..Len(registry) :
        LET address == ToLowerCase(registry[i].address) IN
        (/\ pc \notin BeforeOnchainGauges
         /\ ~Administrative(TypeNameOf(i))
         /\ HasIndexRecord(address)) =>
            /\ ~UnmappedErrorFor(TypeNameOf(i))
            /\ pc \in {"merged", "saving", "done"} =>
                  \E k \in 1..Len(votingGauges) :
                      /\ votingGauges[k].gaugeAddress = address
                      /\ votingGauges[k].isInSubgraph

\* The staking rows with the chain and gauge address.
StakingRowsAt(chain, gaugeAddress) ==
    {row \in staking : row.chain = chain /\ row.gaugeAddress = gaugeAddress}

\* C6: the staking row a lookup found is the one at (chain, address) for a
\* gauge on MAINNET and the one at (chain, lower-cased recipient) for a gauge
\* on another chain that has a recipient; the lookup finds nothing exactly
\* when there is no row at that key.
C6_ResolutionKey ==
    \A i \in 1..Len(tasks) :
        LET gauge == votingGauges[i]
            rows == IF gauge.network = "MAINNET"
                    THEN StakingRowsAt(gauge.network, gauge.gaugeAddress)
                    ELSE StakingRowsAt(gauge.network, ToLowerCase(gauge.recipient[1]))
        IN (/\ tasks[i].pc # "findFirst"
            /\ gauge.network = "MAINNET" \/ IsDefined(gauge.recipient)) =>
               IF IsDefined(tasks[i].found)
               THEN tasks[i].found[1] \in rows
               ELSE rows = {}

\* A gauge on another chain found the staking row of its recipient, which is
\* not a row of its own address, and a MAINNET gauge found the row of its
\* address.
C6_Witness ==
    \E i, j \in 1..Len(tasks) :
        /\ votingGauges[i].network # "MAINNET"
        /\ IsDefined(votingGauges[i].recipient)
        /\ votingGauges[i].recipient[1] # ToLowerCase(votingGauges[i].recipient[1])
        /\ IsDefined(tasks[i].found)
        /\ tasks[i].found[1].gaugeAddress = ToLowerCase(votingGauges[i].recipient[1])
        /\ tasks[i].found[1].gaugeAddress # votingGauges[i].gaugeAddress
        /\ votingGauges[j].network = "MAINNET"
        /\ IsDefined(tasks[j].found)
        /\ tasks[j].found[1].gaugeAddress = votingGauges[j].gaugeAddress

\* C7: saveVotingGauges starts a lookup for every gauge it is given; a lookup
\* that finds no staking row throws, and fails the run, exactly when the gauge
\* is eligible, and otherwise returns no relation without an error.
C7_MissingRelationFatalIffEligible ==
    /\ tasks # NoTasks => Len(tasks) = Len(votingGauges)
    /\ pc = "saving" => Len(tasks) = Len(votingGauges)
    /\ \A i \in 1..Len(tasks) :
          (tasks[i].pc # "findFirst" /\ ~IsDefined(tasks[i].found)) =>
              IF Eligible(votingGauges[i])
              THEN /\ tasks[i].pc = "threw"
                   /\ tasks[i].error[1].kind = "staking_gauge_not_found"
                   /\ pc = "failed"
                   /\ promise = "rejected"
              ELSE /\ tasks[i].pc = "returned"
                   /\ ~IsDefined(tasks[i].error)
                   /\ ~IsDefined(votingGauges[i].stakingGaugeId)

\* The lookup of a killed gauge with weight 0 found no staking row and the
\* callback returned, and the run went on to finish.
C7_Witness ==
    /\ pc = "done"
    /\ \E i \in 1..Len(tasks) :
          /\ ~Eligible(votingGauges[i])
          /\ ~IsDefined(tasks[i].found)
          /\ tasks[i].pc = "returned"

\* C8: after a run that succeeded, every gauge that is not eligible and whose
\* staking row was not found has a row in the store, keyed by its chain and
\* address, without a staking gauge id.
C8_IneligibleUnresolvedPersisted ==
    pc = "done" =>
        \A i \in 1..Len(tasks) :
            (~Eligible(votingGauges[i]) /\ ~IsDefined(tasks[i].found)) =>
                \E row \in BagToSet(store) :
                    /\ row.id = votingGauges[i].gaugeAddress
                    /\ row.chain = votingGauges[i].network
                    /\ ~IsDefined(row.stakingGaugeId)

\* C9: every row the pipeline wrote carries the id of a staking row of its
\* chain; an upsert is issued only after the lookup found a row, with that
\* row's id; an eligible gauge whose lookup found nothing has no upsert.
C9_WrittenRowsCarryRelation ==
    /\ \A row \in BagToSet(store) :
          KeyOf(row) \in written =>
              /\ IsDefined(row.stakingGaugeId)
              /\ \E s \in staking : s.id = row.stakingGaugeId[1] /\ s.chain = row.chain
    /\ \A i \in 1..Len(tasks) :
          /\ IsDefined(tasks[i].fields) =>
                /\ IsDefined(tasks[i].found)
                /\ tasks[i].fields[1].stakingGaugeId = Some(tasks[i].found[1].id)
          /\ (/\ tasks[i].pc # "findFirst"
              /\ Eligible(votingGauges[i])
              /\ ~IsDefined(tasks[i].found)) =>
                ~IsDefined(tasks[i].fields)

\* One callback wrote its row, with the id of the staking row it found, and
\* the callback of an eligible gauge without staking row threw before any
\* upsert.
C9_Witness ==
    \E i, j \in 1..Len(tasks) :
        /\ tasks[i].pc = "returned"
        /\ IsDefined(tasks[i].fields)
        /\ tasks[i].fields[1] \in BagToSet(store)
        /\ KeyOf(tasks[i].fields[1]) \in written
        /\ Eligible(votingGauges[j])
        /\ ~IsDefined(tasks[j].found)
        /\ tasks[j].pc = "threw"

\* C10: a run that succeeds after a run that succeeded, on the same upstream
\* data, leaves the store as it found it, and no (chain, address) key is held
\* by two rows.
C10_Idempotence ==
    /\ (pc = "done" /\ prevRun = "done") => ~storeChanged
    /\ \A r1, r2 \in BagToSet(store) :
          KeyOf(r1) = KeyOf(r2) => (r1 = r2 /\ CopiesIn(r1, store) = 1)

\* The upserts the callbacks of the current run have issued.
IssuedFields == {tasks[i].fields[1] : i \in {j \in 1..Len(tasks) : IsDefined(tasks[j].fields)}}

\* The rows one complete run that issues the upserts leaves when it starts from
\* the initial store: the initial rows of other keys, and for every upsert the
\* initial row of its key updated with it, or the upsert's row when there was
\* none.
RowsOfOneCompleteRun(upserts) ==
    LET initial == BagToSet(StaleRows) IN
    {row \in initial : \A fields \in upserts : KeyOf(fields) # KeyOf(row)}
        \cup {PrismaUpdate(row, fields) :
                 <<row, fields>> \in {pair \in initial \X upserts :
                                         KeyOf(pair[1]) = KeyOf(pair[2])}}
        \cup {fields \in upserts : \A row \in initial : KeyOf(row) # KeyOf(fields)}

\* C11: a complete run leaves the rows one complete run from the initial store
\* leaves, whatever runs came before it on the same upstream data, among them
\* runs that failed after committing some of their upserts.
C11_RestartSafety ==
    pc = "done" =>
        /\ BagToSet(store) = RowsOfOneCompleteRun(IssuedFields)
        /\ \A row \in BagToSet(store) : CopiesIn(row, store) = 1

\* A complete run has followed a run that failed after committing some, not
\* all, of the upserts.
C11_Witness ==
    /\ pc = "done"
    /\ prevRun = "failed"
    /\ prevCommitted # {}
    /\ \E fields \in IssuedFields : KeyOf(fields) \notin prevCommitted

\* C12: once saveVotingGauges has rejected, no upsert of its callbacks
\* commits, and the store stays as the fatal error found it.
C12_NoUpsertAfterFatalError ==
    [][promise = "rejected" =>
          /\ store' = store
          /\ \A i \in (DOMAIN tasks) \cap (DOMAIN tasks') :
                ~(tasks[i].pc = "upsert" /\ tasks'[i].pc = "returned")]_vars

\* The upsert of callback i failed.
UpsertFailed(i) ==
    /\ tasks[i].pc = "threw"
    /\ tasks[i].error[1].kind = "upsert_failed"

\* The store holds the row the upsert wrote: its key, with the weight, the
\* status and the relation of the upsert.
Committed(fields) ==
    /\ KeyOf(fields) \in written
    /\ \E row \in BagToSet(store) :
          /\ SameKey(row, fields)
          /\ row.relativeWeight = fields.relativeWeight
          /\ row.status = fields.status
          /\ row.stakingGaugeId = fields.stakingGaugeId

\* C13: when the upsert of one gauge has failed, the callback of every other
\* gauge can still take its next step, issues its upsert once its lookup found
\* a staking row, and has committed it when all callbacks are done.
C13_WriteIsolation ==
    \A i, j \in 1..Len(tasks) :
        (i # j /\ UpsertFailed(i)) =>
            /\ tasks[j].pc = "findFirst" => ENABLED FindFirstAnswers(j)
            /\ tasks[j].pc = "upsert" => ENABLED UpsertCommits(j)
            /\ (/\ tasks[j].pc # "findFirst"
                /\ Eligible(votingGauges[j])
                /\ IsDefined(tasks[j].found)) => IsDefined(tasks[j].fields)
            /\ (/\ Quiescent
                /\ Eligible(votingGauges[j])
                /\ FindFirstMatches(votingGauges[j]) # {}) =>
                  /\ tasks[j].pc = "returned"
                  /\ IsDefined(tasks[j].fields)
                  /\ Committed(tasks[j].fields[1])

\* The upsert of one gauge failed and the upsert of another gauge of the run
\* is committed.
C13_Witness ==
    \E i, j \in 1..Len(tasks) :
        /\ UpsertFailed(i)
        /\ Quiescent
        /\ tasks[j].pc = "returned"
        /\ IsDefined(tasks[j].fields)
        /\ Committed(tasks[j].fields[1])

\* C14: a failed upsert never leaves saveVotingGauge or saveVotingGauges as
\* an exception: no callback throws it, the run does not fail with it, and a
\* run whose only failures are failed upserts ends with its list of gauges.
C14_WriteFailureAbsorbed ==
    /\ \A i \in 1..Len(tasks) :
          IsDefined(tasks[i].error) => tasks[i].error[1].kind # "upsert_failed"
    /\ IsDefined(runError) => runError[1].kind # "upsert_failed"
    /\ (/\ tasks # NoTasks
        /\ Quiescent
        /\ \A i \in 1..Len(tasks) :
              IsDefined(tasks[i].error) => tasks[i].error[1].kind = "upsert_failed") =>
          promise = "fulfilled"

\* The list holds a gauge with the address.
Lists(gauges, address) ==
    \E k \in 1..Len(gauges) : gauges[k].gaugeAddress = address

\* C15: a gauge of type 'Liquidity Mining Committee' is in neither the output
\* of fetchOnchainVotingGauges nor the merged list, makes no run fail with
\* toPrismaNetwork's error for its type name, and no row is written for it.
C15_AdministrativeDropped ==
    \A i \in 1..Len(registry) :
        LET address == ToLowerCase(registry[i].address) IN
        Administrative(TypeNameOf(i)) =>
            /\ ~Lists(onchainGauges, address)
            /\ ~Lists(votingGauges, address)
            /\ ~Lists(votingGauges, registry[i].address)
            /\ ~UnmappedErrorFor(TypeNameOf(i))
            /\ \A key \in written : key.id # address
            /\ \A fields \in IssuedFields : fields.id # address

\* A run has finished on a registry with a 'Liquidity Mining Committee' gauge
\* that has a subgraph record: the other gauges were merged and written.
C15_Witness ==
    /\ pc = "done"
    /\ written # {}
    /\ Len(votingGauges) = Len(registry) - 1
    /\ \E i \in 1..Len(registry) :
          /\ Administrative(TypeNameOf(i))
          /\ HasIndexRecord(ToLowerCase(registry[i].address))
          /\ Lists(subgraphGauges, ToLowerCase(registry[i].address))

\* C16: every row the pipeline has written has a lower-case address as its
\* id, the same address as its gaugeAddress, and no two rows of the store have
\* the same id and chain.
C16_LowercaseKeys ==
    /\ \A row \in BagToSet(store) :
          KeyOf(row) \in written =>
              /\ row.id.lower
              /\ row.id = row.gaugeAddress
    /\ \A fields \in IssuedFields : fields.id.lower /\ fields.id = fields.gaugeAddress
    /\ \A r1, r2 \in BagToSet(store) :
          (r1.id = r2.id /\ r1.chain = r2.chain) =>
              (r1 = r2 /\ CopiesIn(r1, store) = 1)

\* The pipeline has written the row of a gauge whose registry address is not
\* lower-case, over the row an earlier run left at the same key.
C16_Witness ==
    \E row \in BagToSet(store) :
        /\ KeyOf(row) \in written
        /\ \E stale \in BagToSet(StaleRows) : KeyOf(stale) = KeyOf(row)
        /\ \E i \in 1..Len(registry) :
              /\ ~registry[i].address.lower
              /\ row.id = [registry[i].address EXCEPT !.lower = TRUE]

\* The row's key is the (chain, address) of a gauge of the current run.
KeyOfCurrentRun(row) ==
    \E i \in 1..Len(votingGauges) :
        /\ row.id = votingGauges[i].gaugeAddress
        /\ row.chain = votingGauges[i].network

\* C17: every step other than deleteVotingGauges leaves each row of the store
\* as it is, unless the row's key belongs to a gauge of the current run, and
\* then the store still holds a row with that key.
C17_NoPruning ==
    [][\/ DeleteVotingGauges
       \/ \A row \in BagToSet(store) :
             \/ CopiesIn(row, store') = CopiesIn(row, store)
             \/ /\ KeyOfCurrentRun(row)
                /\ \E kept \in BagToSet(store') : KeyOf(kept) = KeyOf(row)]_vars

\* A run has written rows and finished, and the row of a gauge that is no
\* longer in the registry is still in the store.
C17_Witness ==
    /\ pc = "done"
    /\ written # {}
    /\ \E row \in BagToSet(store) :
          /\ ~KeyOfCurrentRun(row)
          /\ row \in BagToSet(StaleRows)
          /\ \A i \in 1..Len(registry) : row.id # ToLowerCase(registry[i].address)

\* C18: after the upsert of a gauge has committed, the store holds, at the
\* gauge's key, the row with exactly the values of the upsert: weight, weight
\* cap, status, relation and added timestamp, whether or not a row was there
\* before and also where the gauge has no weight cap or no timestamp.
C18_UpsertOverwrites ==
    \A i \in 1..Len(tasks) :
        (tasks[i].pc = "returned" /\ IsDefined(tasks[i].fields)) =>
            LET fields == tasks[i].fields[1] IN
            \E row \in BagToSet(store) :
                /\ SameKey(row, fields)
                /\ row.relativeWeight = fields.relativeWeight
                /\ row.relativeWeightCap = fields.relativeWeightCap
                /\ row.status = fields.status
                /\ row.stakingGaugeId = fields.stakingGaugeId
                /\ row.addedTimestamp = fields.addedTimestamp

\* fetchVotingGaugesFromSubgraph has returned its list in the current run.
SubgraphFetched ==
    \/ pc \in {"subgraph", "merged", "saving", "done"}
    \/ tasks # NoTasks

\* The chain a chain name of the index stands for: the home chain for its
\* names ETHEREUM and VEBAL, ZKEVM for POLYGONZKEVM, the member of Chain of
\* that name otherwise, in any letter case; no chain for any other name.
ChainGivenByIndex(name) ==
    LET upper == ToUpperCase(name)
        given == {chain \in Chain :
                     \/ chain = upper
                     \/ chain = "MAINNET" /\ upper \in {"ETHEREUM", "VEBAL"}
                     \/ chain = "ZKEVM" /\ upper = "POLYGONZKEVM"}
    IN IF given = {} THEN Undefined ELSE Some(CHOOSE chain \in given : TRUE)

\* C19: the list fetchVotingGaugesFromSubgraph returns has one entry per root
\* gauge record, with the record's address, the chain the index names for it
\* and the index's recipient, followed by one entry per liquidity gauge
\* record, with the record's address, chain MAINNET and no recipient; no list
\* is returned when the index names a chain that is none of Chain.
C19_IndexReaderNormalization ==
    LET roots == subgraph.rootGauges
        locals == subgraph.liquidityGauges
    IN /\ SubgraphFetched =>
             /\ Len(subgraphGauges) = Len(roots) + Len(locals)
             /\ \A k \in 1..Len(roots) :
                   /\ subgraphGauges[k].gaugeAddress = roots[k].id
                   /\ Some(subgraphGauges[k].chain) = ChainGivenByIndex(roots[k].chain)
                   /\ subgraphGauges[k].recipient = Some(roots[k].recipient)
             /\ \A k \in 1..Len(locals) :
                   /\ subgraphGauges[Len(roots) + k].gaugeAddress = locals[k].id
                   /\ subgraphGauges[Len(roots) + k].chain = "MAINNET"
                   /\ subgraphGauges[Len(roots) + k].recipient = Undefined
       /\ (\E k \in 1..Len(roots) : ~IsDefined(ChainGivenByIndex(roots[k].chain))) =>
             /\ ~SubgraphFetched
             /\ subgraphGauges = <<>>

\* The list was fetched from a subgraph that holds a liquidity gauge record
\* and a root gauge record whose chain the index names by an alias.
C19_Witness ==
    /\ pc = "subgraph"
    /\ Len(subgraph.liquidityGauges) > 0
    /\ \E k \in 1..Len(subgraph.rootGauges), l \in 1..Len(subgraphGauges) :
          /\ subgraph.rootGauges[k].chain = "PolygonZKEVM"
          /\ subgraphGauges[k].chain = "ZKEVM"
          /\ IsDefined(subgraphGauges[k].recipient)
          /\ subgraphGauges[l].chain = "MAINNET"
          /\ ~IsDefined(subgraphGauges[l].recipient)

\* C20: saveVotingGauges resolves exactly when all its callbacks returned, with
\* the list of the gauges it was given, in the same order, each as given but
\* for its stakingGaugeId: the id of the staking row its lookup found, or
\* undefined when it found none.
C20_ReturnedList ==
    /\ IsDefined(returned) <=> promise = "fulfilled"
    /\ promise = "fulfilled" =>
          /\ Len(returned[1]) = Len(onchainGauges)
          /\ \A i \in 1..Len(onchainGauges) :
                returned[1][i] =
                    [onchainGauges[i] EXCEPT
                        !.stakingGaugeId =
                            IF IsDefined(tasks[i].found)
                            THEN Some(tasks[i].found[1].id)
                            ELSE Undefined]

\* saveVotingGauges resolved with a gauge that has its staking gauge id and a
\* gauge that is not eligible and has none.
C20_Witness ==
    /\ promise = "fulfilled"
    /\ IsDefined(returned)
    /\ \E i, j \in 1..Len(returned[1]) :
          /\ IsDefined(returned[1][i].stakingGaugeId)
          /\ ~IsDefined(returned[1][j].stakingGaugeId)
          /\ ~Eligible(returned[1][j])

\* C21: toPrismaNetwork is case-insensitive and total over its mapping table:
\* a name that upper-cases to ETHEREUM or to the legacy alias VEBAL gives
\* MAINNET, one that upper-cases to POLYGONZKEVM gives ZKEVM, one that
\* upper-cases to a member of Chain gives that member, every other name throws
\* and returns no chain; names that differ only in letter case get the same
\* outcome.
C21_ToPrismaNetworkTable ==
    \A k \in 1..Len(networks) :
        LET upper == ToUpperCase(names[k])
            outcome == networks[k] IN
        /\ upper \in {"ETHEREUM", "VEBAL"} => outcome = Returned("MAINNET")
        /\ upper = "POLYGONZKEVM" => outcome = Returned("ZKEVM")
        /\ upper \in Chain => outcome = Returned(upper)
        /\ upper \notin Chain \cup {"ETHEREUM", "VEBAL", "POLYGONZKEVM"}
              => outcome.threw /\ outcome.error.kind = "network_not_supported"
        /\ \A j \in 1..Len(networks) :
              ToUpperCase(names[j]) = upper => networks[j] = outcome

\* The lower-case spelling of the legacy alias was mapped to the home chain and
\* an unsupported name was refused.
C21_Witness ==
    /\ Len(networks) = 2
    /\ names[1] = "vebal" /\ networks[1] = Returned("MAINNET")
    /\ names[2] = "Solana" /\ networks[2].threw

\* The gauges fetchOnchainVotingGauges built for the current run, before the
\* merge changed them in place.
AsReadFromChain == FetchOnchainVotingGauges(addresses).value

\* C22: the merge keeps the length and order of the list and never changes a
\* gauge's address, killed flag, relative weight or weight cap; a gauge with a
\* subgraph record is flagged isInSubgraph and has the chain, recipient and
\* added timestamp of that record; a gauge without one keeps its chain,
\* recipient, added timestamp and isInSubgraph = false.
C22_MergeFrame ==
    votingGauges # <<>> =>
        \A asRead \in {AsReadFromChain} :
            /\ Len(votingGauges) = Len(asRead)
            /\ \A i \in 1..Len(votingGauges) :
                  LET merged == votingGauges[i]
                      onchain == asRead[i]
                      records == {k \in 1..Len(subgraphGauges) :
                                     subgraphGauges[k].gaugeAddress = onchain.gaugeAddress}
                  IN /\ merged.gaugeAddress = onchain.gaugeAddress
                     /\ merged.isKilled = onchain.isKilled
                     /\ merged.relativeWeight = onchain.relativeWeight
                     /\ merged.relativeWeightCap = onchain.relativeWeightCap
                     /\ \A k \in records :
                           /\ merged.isInSubgraph
                           /\ merged.network = subgraphGauges[k].chain
                           /\ merged.recipient = subgraphGauges[k].recipient
                           /\ merged.addedTimestamp = subgraphGauges[k].addedTimestamp
                     /\ records = {} =>
                           /\ ~merged.isInSubgraph /\ ~onchain.isInSubgraph
                           /\ merged.network = onchain.network
                           /\ merged.recipient = onchain.recipient
                           /\ merged.addedTimestamp = onchain.addedTimestamp

\* The merge has just run on a list holding a gauge that took the recipient and
\* added timestamp of its subgraph record, and a gauge with a weight cap and no
\* record.
C22_Witness ==
    /\ pc = "merged"
    /\ \E i, j \in 1..Len(votingGauges) :
          /\ votingGauges[i].isInSubgraph
          /\ IsDefined(votingGauges[i].recipient)
          /\ votingGauges[i].addedTimestamp # AsReadFromChain[i].addedTimestamp
          /\ ~votingGauges[j].isInSubgraph
          /\ IsDefined(votingGauges[j].relativeWeightCap)

\* The staking row is one findStakingGaugeId is meant to link the gauge to: on
\* the gauge's chain, with the gauge's address on MAINNET and with its
\* lower-cased recipient elsewhere.
MatchingStakingRow(gauge, row) ==
    /\ row.chain = gauge.network
    /\ IF gauge.network = "MAINNET"
       THEN row.gaugeAddress = gauge.gaugeAddress
       ELSE /\ IsDefined(gauge.recipient)
            /\ row.gaugeAddress = ToLowerCase(gauge.recipient[1])

\* C24: a gauge gets a stakingGaugeId only from a matching staking row: the id
\* findStakingGaugeId returned is that of a row on the gauge's chain whose
\* gaugeAddress is the gauge's address (MAINNET) or its lower-cased recipient
\* (other chains); a gauge on another chain without recipient gets no id.
C24_RelationOnlyToMatchingRow ==
    \A i \in 1..Len(votingGauges) :
        LET gauge == votingGauges[i] IN
        IsDefined(gauge.stakingGaugeId) =>
            /\ \E row \in staking : row.id = gauge.stakingGaugeId[1]
            /\ \A row \in staking :
                  row.id = gauge.stakingGaugeId[1] => MatchingStakingRow(gauge, row)

\* The list saveVotingGauges was given in the current run, computed from what
\* the run read.
AsMerged == UpdateOnchainGaugesWithSubgraphData(AsReadFromChain, subgraphGauges)

\* What callback i does with the answer its findFirst got, whenever it runs.
ResolvedId(i) == FindStakingGaugeId(AsMerged[i], tasks[i].found)

ResolvedGauge(i) == [AsMerged[i] EXCEPT !.stakingGaugeId = ResolvedId(i).value]

\* C23: the callbacks of saveVotingGauges run in any order, and when all of
\* them have finished the outcome does not depend on that order. In every
\* quiescent state of a first run, each callback ended as its gauge and the
\* answer of its lookup determine (with the error of the lookup, or with its
\* gauge, or with a failed write), the store holds the rows of the initial
\* store updated by the upserts of the callbacks that returned, and the list
\* returned, if any, holds every gauge at its position with its own relation.
C23_InterleavingIndependence ==
    (tasks # NoTasks /\ Quiescent /\ prevRun = "none") =>
        /\ Len(tasks) = Len(AsMerged)
        /\ \A i, j \in 1..Len(AsMerged) :
              i # j => KeyOf(UpsertFields(AsMerged[i])) # KeyOf(UpsertFields(AsMerged[j]))
        /\ \A i \in 1..Len(tasks) :
              IF ResolvedId(i).threw
              THEN tasks[i].pc = "threw" /\ tasks[i].error = Some(ResolvedId(i).error)
              ELSE \/ /\ tasks[i].pc = "returned"
                      /\ tasks[i].result = Some(ResolvedGauge(i))
                      /\ tasks[i].fields = SaveVotingGauge(ResolvedGauge(i))
                   \/ UpsertFailed(i) /\ IsDefined(SaveVotingGauge(ResolvedGauge(i)))
        /\ BagToSet(store) =
              RowsOfOneCompleteRun(
                  {UpsertFields(ResolvedGauge(i)) :
                       i \in {j \in 1..Len(tasks) :
                                 /\ tasks[j].pc = "returned"
                                 /\ IsDefined(SaveVotingGauge(ResolvedGauge(j)))}})
        /\ \A row \in BagToSet(store) : CopiesIn(row, store) = 1
        /\ IsDefined(returned) =>
              returned[1] = [i \in 1..Len(tasks) |-> ResolvedGauge(i)]

\* All callbacks of a first run have finished, two of them after their upserts
\* committed, one on a row of the initial store and one on a new row.
C23_Witness ==
    /\ tasks # NoTasks /\ Quiescent /\ prevRun = "none"
    /\ \E i, j \in 1..Len(tasks) :
          /\ i # j
          /\ tasks[i].pc = "returned" /\ IsDefined(tasks[i].fields)
          /\ tasks[j].pc = "returned" /\ IsDefined(tasks[j].fields)
          /\ \E row \in BagToSet(StaleRows) : SameKey(row, tasks[i].fields[1])
          /\ \A row \in BagToSet(StaleRows) : ~SameKey(row, tasks[j].fields[1])

\* The table holds the row of every AddRemove entity of the subgraph.
AllEventsStored ==
    \A event \in addRemoveEvents : \E row \in poolEvents : row.id = event.id

\* C25: on a subgraph that adds no events and a database that has stopped
\* failing, repeated calls of syncJoinExits eventually store every join/exit event of
\* the subgraph, for good; no event is skipped for ever.
C25_Completeness == <>[]AllEventsStored

\* The update of the dynamic data of pool j, and of its token k, is in the
\* table.
DynamicDataCommitted(j) == poolsWithUSD[j].poolDynamicData \in poolDynamicDataTable

TokenDataCommitted(j, k) ==
    poolsWithUSD[j].poolTokenDynamicData[k] \in poolTokenDynamicDataTable

\* The entries of the error log for pool j.
ErrorsOf(j) == {n \in 1..Len(consoleErrors) : consoleErrors[n].pool = j}

\* The update the logged error n came from: 0 for the pool's dynamic data, k
\* for its token k.
FailedUpdate(n) ==
    IF "token" \in DOMAIN consoleErrors[n].error.key
    THEN consoleErrors[n].error.key.token
    ELSE 0

\* The loop body has run for pool j: all its updates are committed and nothing
\* is logged for it, or exactly one error is logged for it, the updates issued
\* before the failing one are committed and the later ones were not issued.
Processed(j) ==
    \/ /\ ErrorsOf(j) = {}
       /\ DynamicDataCommitted(j)
       /\ \A k \in 1..TokensPerPool : TokenDataCommitted(j, k)
    \/ \E n \in ErrorsOf(j) :
          /\ ErrorsOf(j) = {n}
          /\ DynamicDataCommitted(j) <=> FailedUpdate(n) > 0
          /\ \A k \in 1..TokensPerPool : TokenDataCommitted(j, k) <=> k < FailedUpdate(n)

\* C26: an error of an update of one pool is caught and logged, and the loop
\* goes on: once the loop has started syncPools never rejects, every pool
\* before the current one was processed whatever happened to the others, a
\* step is always possible, and when syncPools returns it returns the ids it
\* was given after processing every pool; the updates of a failing pool that
\* were issued before its error stay committed.
C26_FailureIsolation ==
    /\ poolsPc.at = "rejected" =>
          consoleErrors = <<>> /\ poolsWithUSD = <<>> /\ ~IsDefined(poolsReturned)
    /\ poolsPc.at = "pool" =>
          /\ \A j \in 1..(poolsPc.pool - 1) : Processed(j)
          /\ ErrorsOf(poolsPc.pool) = {}
          /\ ~IsDefined(poolsReturned)
          /\ ENABLED (UpdateDynamicData \/ UpdateTokenData)
    /\ poolsPc.at = "returned" =>
          /\ poolsReturned = Some(poolIds)
          /\ Len(poolsWithUSD) = Len(poolIds)
          /\ \A j \in 1..Len(poolIds) :
                poolsWithUSD[j].poolDynamicData.poolId = poolIds[j] /\ Processed(j)
    /\ \A n, m \in 1..Len(consoleErrors) :
          n < m => consoleErrors[n].pool < consoleErrors[m].pool

\* syncPools returned its ids after the update of the second token of the first
\* pool failed: the pool's earlier updates are committed, and the next pool was
\* updated in full.
C26_Witness ==
    /\ poolsPc.at = "returned"
    /\ poolsReturned = Some(poolIds)
    /\ \E n \in ErrorsOf(1) : FailedUpdate(n) = 2
    /\ DynamicDataCommitted(1)
    /\ TokenDataCommitted(1, 1)
    /\ ~TokenDataCommitted(1, 2)
    /\ ErrorsOf(2) = {}
    /\ DynamicDataCommitted(2)
    /\ \A k \in 1..TokensPerPool : TokenDataCommitted(2, k)

\* What a step does to call r of getProtocolData, as the tiered lookup has it.
TieredStep(r) ==
    LET before == requests[r]
        after == requests'[r]
    IN (after # before /\ after.method = "getProtocolData") =>
          \* the call starts with the in-process cache: a hit is returned and
          \* nothing else is touched
          /\ Finished(before) =>
                /\ after.memCached = memCache
                /\ IF IsDefined(memCache)
                   THEN after.pc = "returned" /\ after.result = memCache
                   ELSE after.pc = "getObjectValue"
                /\ memCache' = memCache /\ sharedCache' = sharedCache
          \* the shared cache is asked only after the in-process cache missed
          /\ after.pc = "getObjectValue" => Finished(before) /\ ~IsDefined(memCache)
          \* a shared-cache hit is returned and copied into the in-process cache
          /\ (before.pc = "getObjectValue" /\ after.pc # "rejected"
                  /\ IsDefined(sharedCache)) =>
                /\ after.pc = "returned" /\ after.result = sharedCache
                /\ memCache' = sharedCache
          \* the aggregation is invoked only when both caches missed
          /\ (after.pc = "aggregating" /\ before.pc # "aggregating") =>
                /\ before.pc = "getObjectValue"
                /\ ~IsDefined(before.memCached)
                /\ ~IsDefined(sharedCache)
          \* the aggregation does not run for a call that had a hit
          /\ IsDefined(after.protocolData) =>
                ~IsDefined(after.memCached) /\ ~IsDefined(after.cached)

\* What a step does to any call r whose aggregation ran: its result is
\* returned only by the step that writes it to the shared cache.
AggregationStep(r) ==
    LET before == requests[r]
        after == requests'[r]
    IN (after.pc = "returned" /\ before.pc # "returned" /\ IsDefined(after.protocolData)) =>
          /\ before.pc = "putObjectValue"
          /\ after.result = before.protocolData
          /\ sharedCache' = after.result

\* C27: getProtocolData reads the in-process cache first and returns a hit;
\* only after a miss it asks the shared cache, whose hit it returns and copies
\* into the in-process cache; it invokes the aggregation only after both
\* missed; a result of the aggregation is written to the shared cache before
\* it is returned.
C27_TieredCacheLookup ==
    [][\A r \in 1..MaxRequests : TieredStep(r) /\ AggregationStep(r)]_vars

\* A call of getProtocolData has returned the entry of the in-process cache,
\* which got there from a shared-cache hit of an earlier call, while the shared
\* cache by now holds the result of a later aggregation.
C27_Witness ==
    \E r \in 1..MaxRequests :
        /\ requests[r].method = "getProtocolData"
        /\ requests[r].pc = "returned"
        /\ IsDefined(requests[r].memCached)
        /\ requests[r].result = memCache
        /\ IsDefined(sharedCache)
        /\ sharedCache # memCache

====
